---- MODULE Spec2Model ----
(***************************************************************************)
(* Model of the automation orchestration core of claude-in-mobile: the     *)
(* recursive tool dispatcher (handleTool), the batch_commands and run_flow *)
(* composite handlers, and the leaf handlers they dispatch to.             *)
(*                                                                         *)
(* A handler activation is a frame on `stack`; the top frame is the one    *)
(* that runs.  An `await` is a suspension point: the callee (a nested      *)
(* dispatch or a backend call) delivers its completion in `ret`, and the   *)
(* awaiting frame resumes from its `pc`.                                   *)
(***************************************************************************)
EXTENDS Integers, Sequences, FiniteSets, TLC

(* ------------------------------------------------------------------ *)
(* Program constants                                                  *)
(* ------------------------------------------------------------------ *)
MAX_RECURSION_DEPTH == 3
FLOW_MAX_STEPS == 20
FLOW_MAX_DURATION == 60000
FLOW_MAX_REPEAT == 10
DEFAULT_MAX_DURATION == 30000
RETRY_SLICE == 150
MESSAGE_SLICE == 200

FLOW_ALLOWED_ACTIONS ==
  { "tap", "swipe", "input_text", "press_key", "wait", "wait_for_element",
    "screenshot", "analyze_screen", "assert_visible", "assert_not_exists",
    "find_and_tap", "find_element", "open_url" }

(* ------------------------------------------------------------------ *)
(* Bounds of the model                                                *)
(* ------------------------------------------------------------------ *)
\* deepest chain of nested batch_commands in the generated requests
MaxNest == 4
\* the amount of wall-clock time one backend call may take (ms)
TickMs == 30001
\* the clock stops advancing here
MaxNow == 60002
\* a repeat count larger than the hard cap, to see the clamp
BigRepeat == 12

(* ------------------------------------------------------------------ *)
(* Strings                                                            *)
(* ------------------------------------------------------------------ *)
Undefined == "undefined"
Absent == -1

\* String.prototype.includes
Includes(s, sub) ==
  \E k \in 1..(Len(s) - Len(sub) + 1) : SubSeq(s, k, k + Len(sub) - 1) = sub

\* String.prototype.slice(0, n)
Slice(s, n) == IF Len(s) <= n THEN s ELSE SubSeq(s, 1, n)

LowerChar(c) ==
  CASE c = "A" -> "a" [] c = "B" -> "b" [] c = "C" -> "c" [] c = "D" -> "d"
    [] c = "E" -> "e" [] c = "F" -> "f" [] c = "G" -> "g" [] c = "H" -> "h"
    [] c = "I" -> "i" [] c = "J" -> "j" [] c = "K" -> "k" [] c = "L" -> "l"
    [] c = "M" -> "m" [] c = "N" -> "n" [] c = "O" -> "o" [] c = "P" -> "p"
    [] c = "Q" -> "q" [] c = "R" -> "r" [] c = "S" -> "s" [] c = "T" -> "t"
    [] c = "U" -> "u" [] c = "V" -> "v" [] c = "W" -> "w" [] c = "X" -> "x"
    [] c = "Y" -> "y" [] c = "Z" -> "z" [] OTHER -> c

RECURSIVE ToLower(_)
ToLower(s) ==
  IF Len(s) = 0 THEN s
  ELSE LowerChar(SubSeq(s, 1, 1)) \o ToLower(SubSeq(s, 2, Len(s)))

\* findByText / findElements({text}): the texts of `elements` that contain
\* `text`, compared case-insensitively
FindByText(elements, text) ==
  { e \in elements : Includes(ToLower(e), ToLower(text)) }

(* ------------------------------------------------------------------ *)
(* Errors                                                             *)
(* ------------------------------------------------------------------ *)
RecursionMessage ==
  "Maximum recursion depth (" \o ToString(MAX_RECURSION_DEPTH)
    \o ") exceeded. Nested batch_commands/run_flow calls are limited to prevent stack overflow."

UnknownToolMessage(name) == "Unknown tool: " \o name

MkError(cls, message) == [cls |-> cls, message |-> message]

\* the error classes run_flow treats as "device unavailable"
DeviceUnavailableClasses ==
  { "DeviceNotFoundError", "DeviceOfflineError", "AdbNotInstalledError" }

\* what a backend call can throw: a plain error, a plain error whose message
\* holds "not found" (DeviceManager.setDevice), and the device-unavailable
\* errors of the adb client
BackendErrors ==
  { MkError("Error", "Command failed: adb shell input"),
    MkError("Error", "Device not found: emulator-5554"),
    MkError("DeviceOfflineError", "Device is offline") }

BackendOutcomes == { MkError("none", "") } \cup BackendErrors

Threw(o) == o.cls # "none"

(* ------------------------------------------------------------------ *)
(* Requests: tool names and argument bags                             *)
(* ------------------------------------------------------------------ *)
Texts == { "Submit" }
Platforms == { "android", "ios" }

\* the platforms a call can name as its target, and so the keys of the caches
Targets == Platforms \cup { "desktop" }

NoRepeat == [times |-> 0, until_found |-> "", until_not_found |-> ""]

NoArgs ==
  [ commands |-> << >>, stopOnError |-> Undefined,
    steps |-> << >>, maxDuration |-> Absent,
    x |-> Absent, y |-> Absent, text |-> "", direction |-> "",
    key |-> "", hints |-> Undefined,
    index |-> Absent, diff |-> Undefined, waitForStable |-> Undefined,
    timeout |-> Absent, interval |-> Absent,
    description |-> "", minConfidence |-> Absent,
    platform |-> Undefined ]

Cmd(name, arguments) == [name |-> name, arguments |-> arguments]

TapXY == Cmd("tap", [NoArgs EXCEPT !.x = 10, !.y = 20])
TapText(t) == Cmd("tap", [NoArgs EXCEPT !.text = t])
SwipeDir(d) == Cmd("swipe", [NoArgs EXCEPT !.direction = d])
InputText(t) == Cmd("input_text", [NoArgs EXCEPT !.text = t])
PressKey(k) == Cmd("press_key", [NoArgs EXCEPT !.key = k])
WithHints(cmd) == [cmd EXCEPT !.arguments.hints = "true"]
UnknownCmd == Cmd("no_such_tool", NoArgs)
Batch(cmds, stop) ==
  Cmd("batch_commands", [NoArgs EXCEPT !.commands = cmds, !.stopOnError = stop])
Flow(steps, maxDuration) ==
  Cmd("run_flow", [NoArgs EXCEPT !.steps = steps, !.maxDuration = maxDuration])

MkStep(cmd, inf, rep, onerr) ==
  [ action |-> cmd.name, args |-> cmd.arguments, if_not_found |-> inf,
    repeat |-> rep, on_error |-> onerr ]

PlainStep(cmd) == MkStep(cmd, Undefined, NoRepeat, Undefined)


\* a flow step is a command plus control metadata; the step under study comes
\* first and a plain tap follows it, so that "the flow continues" is visible
ShortRepeats == { NoRepeat, [NoRepeat EXCEPT !.times = 2] }

LongRepeats ==
  { [NoRepeat EXCEPT !.times = BigRepeat],
    [NoRepeat EXCEPT !.until_found = "submit"],
    [NoRepeat EXCEPT !.until_not_found = "Submit"] }

StudySteps ==
  { MkStep(cmd, inf, rep, onerr) :
      cmd \in { TapText("Submit"), TapXY },
      inf \in { Undefined, "skip", "scroll_down", "scroll_up", "fail" },
      rep \in ShortRepeats,
      onerr \in { Undefined, "stop", "skip", "retry" } }
    \cup
  { MkStep(cmd, inf, rep, onerr) :
      cmd \in { TapXY },
      inf \in { Undefined, "scroll_down" },
      rep \in LongRepeats,
      onerr \in { Undefined, "skip", "retry" } }

LongSteps(n) == [k \in 1..n |-> PlainStep(TapXY)]

Flows ==
  { Flow(<<s, PlainStep(TapXY)>>, Absent) : s \in StudySteps }
    \cup { Flow(LongSteps(n), 100000) : n \in { FLOW_MAX_STEPS, FLOW_MAX_STEPS + 1 } }
    \cup { Flow(<< >>, Absent),
           Flow(<<MkStep(TapXY, Undefined, [NoRepeat EXCEPT !.times = 2], "skip")>>, Absent),
           Flow(<<MkStep(TapXY, Undefined, [NoRepeat EXCEPT !.times = -1], Undefined),
                  PlainStep(TapXY)>>, Absent),
           Flow(<<PlainStep(TapXY), PlainStep(Batch(<<TapXY>>, Undefined))>>, Absent),
           Flow(<<PlainStep(TapXY), PlainStep(Flow(<<PlainStep(TapXY)>>, Absent))>>, Absent),
           Flow(<<PlainStep(UnknownCmd)>>, Absent),
           Flow(LongSteps(FLOW_MAX_STEPS) \o <<PlainStep(Batch(<<TapXY>>, Undefined))>>, Absent) }

\* what sits at the bottom of a chain of nested batch_commands
NestSeeds ==
  { TapXY, UnknownCmd,
    Flow(<<PlainStep(TapXY), PlainStep(TapXY)>>, Absent),
    Flow(<<MkStep(TapXY, Undefined, [NoRepeat EXCEPT !.times = 2], "retry"),
           PlainStep(TapXY)>>, Absent) }

RECURSIVE Nested(_)
Nested(k) ==
  IF k = 0 THEN NestSeeds
  ELSE { Batch(<<c, TapXY>>, stop) :
           c \in Nested(k - 1), stop \in { Undefined, "false" } }

FlatBatches ==
  { Batch(cmds, stop) :
      cmds \in { << >>, <<TapXY, UnknownCmd, TapXY>>, <<TapXY, SwipeDir("up")>> },
      stop \in { Undefined, "true", "false" } }

\* the actions that can report hints, asked with and without them
HintRequests ==
  LET plain == { TapXY, TapText("Submit"), SwipeDir("up"), InputText("hello"),
                 PressKey("BACK") }
  IN plain \cup { WithHints(c) : c \in plain }

Requests ==
  { Cmd("swipe", NoArgs), UnknownCmd } \cup HintRequests
    \cup Flows \cup FlatBatches \cup UNION { Nested(k) : k \in 1..MaxNest }

(* ------------------------------------------------------------------ *)
(* State                                                              *)
(* ------------------------------------------------------------------ *)
VARIABLES
  toolMap,        \* registry: tool name -> definition
  aliasMap,       \* registry: alias -> canonical name
  activePlatform, \* DeviceManager.activeDevice.platform
  ui,             \* the texts on the device's screen
  elementCache,   \* cachedElementsMap: platform -> last parsed capture
  now,            \* Date.now()
  phase,          \* the request handler: "idle", "running", "done"
  request,        \* the tool call being served
  stack,          \* handler activations, outermost first
  ret,            \* completion delivered to the awaiting top frame
  response,       \* what the request handler answered
  lastScreenshot, \* lastScreenshotMap: platform -> last screenshot buffer
  lastDispatch,   \* the most recent handleTool call and what it did
  recursionHit,   \* some handleTool call of this request hit the depth limit
  self,           \* which of the two tool calls that can be in flight is running
  parked          \* the other tool call, suspended at an await or not yet made

registryVars == <<toolMap, aliasMap>>
deviceVars == <<activePlatform, ui, elementCache>>
ghostVars == <<lastDispatch, recursionHit>>
vars == <<toolMap, aliasMap, activePlatform, ui, elementCache, lastScreenshot, now,
          phase, request, stack, ret, response, lastDispatch, recursionHit, self, parked>>

NoResult == [step |-> 0, action |-> "", success |-> FALSE, message |-> ""]

Frame(tool, args, depth) ==
  [ tool |-> tool, args |-> args, depth |-> depth, pc |-> "start",
    i |-> 0, iter |-> 0, results |-> << >>, last |-> NoResult,
    flowStart |-> 0,
    result |-> "",   \* the message of an action handler before the hints
    prev |-> 0,      \* waitForStableScreenshot: the capture to compare against
    buf |-> 0,       \* screenshot handler: pngBuffer
    changePercent |-> -1,  \* waitForStableScreenshot: diff.changePercent, once compared
    ns |-> 0,   \* screenshots captured by this activation
    nd |-> 0,   \* handleTool calls made by this activation
    nc |-> 0,   \* hierarchy captures made by this activation
    sw |-> 0,   \* fallback swipes dispatched for the current step
    re |-> 0,   \* re-dispatches after a swipe for the current step
    exceeded |-> FALSE ]  \* a budget check of this activation found the budget spent

\* a screenshot buffer is known by the ordinal of its capture within the
\* activation that took it; nothing is cached at first
NoBuffer == 0

NoRet ==
  [ kind |-> "none", text |-> "", cls |-> "", lines |-> << >>, elements |-> {},
    image |-> "", buf |-> NoBuffer ]
Ok(text) == [NoRet EXCEPT !.kind = "ok", !.text = text]
Report(text, lines) == [NoRet EXCEPT !.kind = "ok", !.text = text, !.lines = lines]
Err(e) == [NoRet EXCEPT !.kind = "err", !.text = e.message, !.cls = e.cls]
Captured(elements) == [NoRet EXCEPT !.kind = "ok", !.elements = elements]
\* a result with an image: the full frame, a crop or an annotated frame of `buf`
Image(what, buf, text) ==
  [NoRet EXCEPT !.kind = "ok", !.text = text, !.image = what, !.buf = buf]

\* the state of a tool call that has not been made
NoCall ==
  [ phase |-> "idle", request |-> Cmd("no_such_tool", NoArgs), stack |-> << >>,
    ret |-> NoRet, response |-> [kind |-> "none", text |-> "", isError |-> FALSE],
    recursionHit |-> FALSE ]

Top == stack[Len(stack)]
Below == SubSeq(stack, 1, Len(stack) - 1)
Running(tool, pc) ==
  /\ phase = "running"
  /\ Len(stack) > 0
  /\ Top.tool = tool
  /\ Top.pc = pc

\* a ToolDefinition: the tool's name and its handler
ToolDef(name, handler) == [name |-> name, handler |-> handler]

Init ==
  /\ toolMap = [n \in { "tap", "swipe", "input_text", "press_key", "batch_commands",
                          "run_flow" } |-> ToolDef(n, n)]
  /\ aliasMap = [n \in {} |-> ""]
  /\ activePlatform \in Platforms
  /\ ui \in SUBSET Texts
  /\ elementCache = [p \in Targets |-> {}]
  /\ lastScreenshot = [p \in Targets |-> NoBuffer]
  /\ now = 0
  /\ phase = "idle"
  /\ request = UnknownCmd
  /\ stack = << >>
  /\ ret = NoRet
  /\ response = [kind |-> "none", text |-> "", isError |-> FALSE]
  /\ lastDispatch = [name |-> "", depth |-> 0, out |-> "none"]
  /\ recursionHit = FALSE
  /\ self = 1
  /\ parked = NoCall

(* ------------------------------------------------------------------ *)
(* Registry and dispatcher                                            *)
(* ------------------------------------------------------------------ *)
\* variant: a name that is registered already keeps its definition, and of
\* several definitions with one name the first one stays
registerTools_FirstWins(defs) ==
  LET names == { defs[k].name : k \in 1..Len(defs) }
      first(n) == CHOOSE k \in 1..Len(defs) :
                    /\ defs[k].name = n
                    /\ \A j \in 1..(k - 1) : defs[j].name # n
  IN toolMap' = [n \in DOMAIN toolMap \cup names |->
                   IF n \in DOMAIN toolMap THEN toolMap[n] ELSE defs[first(n)]]

\* for (const def of defs) toolMap.set(def.tool.name, def): of several
\* definitions with one name the last one stays
registerTools(defs) ==
  LET names == { defs[k].name : k \in 1..Len(defs) }
      last(n) == CHOOSE k \in 1..Len(defs) :
                   /\ defs[k].name = n
                   /\ \A j \in (k + 1)..Len(defs) : defs[j].name # n
  IN toolMap' = [n \in DOMAIN toolMap \cup names |->
                   IF n \in names THEN defs[last(n)] ELSE toolMap[n]]

\* for (const [alias, canonical] of Object.entries(aliases)) aliasMap.set(..)
registerAliases(aliases) ==
  aliasMap' = [a \in DOMAIN aliasMap \cup DOMAIN aliases |->
                 IF a \in DOMAIN aliases THEN aliases[a] ELSE aliasMap[a]]

\* variant: the aliases are listed too
getTools_WithAliases ==
  { toolMap[n].name : n \in DOMAIN toolMap } \cup DOMAIN aliasMap

\* [...toolMap.values()].map(d => d.tool), as the set of the tools' names
getTools ==
  { toolMap[n].name : n \in DOMAIN toolMap }

\* variant: the alias table is consulted before the definitions
getHandler_AliasFirst(name) ==
  IF name \in DOMAIN aliasMap /\ aliasMap[name] # ""
    THEN IF aliasMap[name] \in DOMAIN toolMap
           THEN toolMap[aliasMap[name]].handler ELSE Undefined
  ELSE IF name \in DOMAIN toolMap THEN toolMap[name].handler
  ELSE Undefined

\* the definition of that name, else the definition its alias names
getHandler(name) ==
  IF name \in DOMAIN toolMap THEN toolMap[name].handler
  ELSE IF name \in DOMAIN aliasMap /\ aliasMap[name] # ""
    THEN IF aliasMap[name] \in DOMAIN toolMap
           THEN toolMap[aliasMap[name]].handler ELSE Undefined
  ELSE Undefined

\* variants of the depth guard: one level early, one level late
DepthExceeded_AtLimit(depth) == depth >= MAX_RECURSION_DEPTH
DepthExceeded_Late(depth) == depth > MAX_RECURSION_DEPTH + 1

\* depth > MAX_RECURSION_DEPTH
DepthExceeded(depth) == depth > MAX_RECURSION_DEPTH

\* handleTool up to the handler call: what it does for (name, depth)
HandleTool(name, depth) ==
  IF DepthExceeded(depth)
    THEN [out |-> "recursion", handler |-> Undefined,
          err |-> MkError("Error", RecursionMessage)]
  ELSE IF getHandler(name) = Undefined
    THEN [out |-> "unknown", handler |-> Undefined,
          err |-> MkError("Error", UnknownToolMessage(name))]
  ELSE [out |-> "invoked", handler |-> getHandler(name), err |-> MkError("none", "")]

\* ctx.handleTool(name, args, depth) called with `callers` as the stack of the
\* awaiting activations: the handler starts, or the call throws at once
Dispatch(callers, name, args, depth) ==
  LET h == HandleTool(name, depth) IN
  /\ lastDispatch' = [name |-> name, depth |-> depth, out |-> h.out]
  /\ recursionHit' = (recursionHit \/ h.out = "recursion")
  /\ IF h.out = "invoked"
       THEN /\ stack' = Append(callers, Frame(h.handler, args, depth))
            /\ ret' = NoRet
       ELSE /\ stack' = callers
            /\ ret' = Err(h.err)

\* variant: the completion is delivered while the activation stays on the stack
Return_StillRunning(val) ==
  /\ stack' = stack
  /\ ret' = val

\* the top activation completes with `val`
Return(val) ==
  /\ stack' = Below
  /\ ret' = val

\* variant: the depth is ambient: the number of activations in progress, of
\* whichever call
ChildDepth_Ambient(f) == Len(stack) + Len(parked.stack)

\* variant: the callee is given the caller's own depth
ChildDepth_Same(f) == f.depth

\* (_depth ?? 0) + 1: the depth a composite handler passes to handleTool
ChildDepth(f) == f.depth + 1

\* a backend call takes no time or a long time
Elapse == now' \in { now } \cup { t \in { now + TickMs } : t <= MaxNow }

(* ------------------------------------------------------------------ *)
(* The request handler                                                *)
(* ------------------------------------------------------------------ *)
\* the request handler takes one of `requests` and calls handleTool(name, args)
Serve(requests) ==
  /\ phase = "idle"
  /\ \E r \in requests :
       /\ request' = r
       /\ Dispatch(<< >>, r.name, r.arguments, 0)
  /\ phase' = "running"
  /\ UNCHANGED <<registryVars, self, parked, lastScreenshot, deviceVars, now, response>>

Respond ==
  /\ phase = "running"
  /\ stack = << >>
  /\ ret.kind # "none"
  /\ response' = IF ret.kind = "ok" /\ ret.image # ""
                   THEN [kind |-> "image", text |-> ret.text, isError |-> FALSE]
                 ELSE IF ret.kind = "ok"
                   THEN [kind |-> "text", text |-> ret.text, isError |-> FALSE]
                   ELSE [kind |-> "text", text |-> "Error: " \o ret.text, isError |-> TRUE]
  /\ phase' = "done"
  /\ ret' = NoRet
  /\ UNCHANGED <<registryVars, self, parked, lastScreenshot, deviceVars, now, request, stack, ghostVars>>

(* ------------------------------------------------------------------ *)
(* Leaf handlers                                                      *)
(* ------------------------------------------------------------------ *)
CurrentPlatform(args) ==
  IF args.platform = Undefined THEN activePlatform ELSE args.platform

\* centre of the element found by text
ElementCenter(e) == [x |-> 540, y |-> 960]

TappedAt(x, y) == "Tapped at (" \o ToString(x) \o ", " \o ToString(y) \o ")"

\* a backend action of an action handler, whose message on success is
\* `primary`: it throws, or it acts and the screen may change; then, with
\* hints === true, the handler goes on to generateActionHints.  `cache` is the
\* element cache as the handler has left it so far
BackendAction(args, primary, cache) ==
  /\ elementCache' = cache
  /\ \E o \in BackendOutcomes :
       IF Threw(o)
         THEN /\ Return(Err(o))
              /\ UNCHANGED ui
         ELSE /\ ui' \in SUBSET Texts
              /\ IF args.hints = "true"
                   THEN /\ stack' = [stack EXCEPT ![Len(stack)].pc = "hints",
                                                  ![Len(stack)].result = primary]
                        /\ ret' = NoRet
                   ELSE Return(Ok(primary))

\* deviceManager.tap(x, y)
BackendTap(args, x, y, cache) == BackendAction(args, TappedAt(x, y), cache)

\* the order in which the texts appear in a hierarchy
ScreenOrder == << "Submit" >>

\* UiElement.index: the ordinal of the element within its capture
IndexIn(elements, e) ==
  Cardinality({ k \in 1..Len(ScreenOrder) :
                  /\ ScreenOrder[k] \in elements
                  /\ \E j \in (k + 1)..Len(ScreenOrder) : ScreenOrder[j] = e })

\* elements.find(e => e.index === idx), as the set of the matches
ElementAtIndex(elements, idx) == { e \in elements : IndexIn(elements, e) = idx }

\* variant: the coordinates are not looked at before the tap
MissingCoordinates_Unchecked(x, y) == FALSE

\* x === undefined || y === undefined
MissingCoordinates(x, y) == x = Absent \/ y = Absent

\* the tap handler, for the arguments the requests carry: x and y, or text,
\* or index, and hints (no resourceId, label, targetPid)
Tap ==
  /\ Running("tap", "start")
  /\ LET args == Top.args
         currentPlatform == CurrentPlatform(args)
     IN
     IF currentPlatform = "ios" /\ args.text # ""
       THEN \* iosClient.findElement + tapElement; any failure is reported as text
            /\ \E o \in BackendOutcomes :
                 IF Threw(o) \/ FindByText(ui, args.text) = {}
                   THEN /\ Return(Ok("Element not found: " \o args.text \o "\n"
                                     \o (IF Threw(o) THEN o.message ELSE "no such element")))
                        /\ UNCHANGED ui
                   ELSE /\ Return(Ok("Tapped element: " \o args.text))
                        /\ ui' \in SUBSET Texts
            /\ UNCHANGED elementCache
     ELSE IF args.index # Absent /\ currentPlatform = "android"
       THEN \* the cached elements, or a fresh capture when none are cached
            \E cap \in BackendOutcomes :
              LET cached == elementCache["android"]
                  elements == IF cached = {} THEN ui ELSE cached
                  cache == [elementCache EXCEPT !["android"] = elements]
                  el == ElementAtIndex(elements, args.index)
              IN
              IF cached = {} /\ Threw(cap)
                THEN /\ Return(Err(cap))
                     /\ UNCHANGED <<ui, elementCache>>
              ELSE IF el = {}
                THEN /\ Return(Ok("Element with index " \o ToString(args.index)
                                   \o " not found. Run get_ui first."))
                     /\ elementCache' = cache
                     /\ UNCHANGED ui
              ELSE LET target == CHOOSE e \in el : TRUE IN
                   BackendTap(args, ElementCenter(target).x, ElementCenter(target).y, cache)
     ELSE IF args.text # "" /\ currentPlatform = "android"
       THEN \* getUiHierarchyAsync + parseUiHierarchy + setCachedElements
            \E cap \in BackendOutcomes :
              IF Threw(cap)
                THEN /\ Return(Err(cap))
                     /\ UNCHANGED <<ui, elementCache>>
                ELSE LET found == FindByText(ui, args.text)
                         cache == [elementCache EXCEPT !["android"] = ui]
                     IN
                     IF found = {}
                       THEN /\ Return(Ok("Element not found: " \o args.text))
                            /\ elementCache' = cache
                            /\ UNCHANGED ui
                       ELSE LET target == CHOOSE e \in found : TRUE IN
                            BackendTap(args, ElementCenter(target).x,
                                       ElementCenter(target).y, cache)
     ELSE IF MissingCoordinates(args.x, args.y)
       THEN /\ Return(Ok("Please provide x,y coordinates, text, resourceId, label, or index"))
            /\ UNCHANGED <<ui, elementCache>>
     ELSE BackendTap(args, args.x, args.y, elementCache)
  /\ Elapse
  /\ UNCHANGED <<registryVars, self, parked, lastScreenshot, activePlatform, phase, request, response, ghostVars>>

\* the swipe handler, for a direction
Swipe ==
  /\ Running("swipe", "start")
  /\ LET args == Top.args IN
     IF args.direction # ""
       THEN BackendAction(args, "Swiped " \o args.direction, elementCache)
       ELSE /\ Return(Ok("Please provide direction or x1,y1,x2,y2 coordinates"))
            /\ UNCHANGED <<ui, elementCache>>
  /\ Elapse
  /\ UNCHANGED <<registryVars, self, parked, lastScreenshot, activePlatform, phase, request, response, ghostVars>>

\* the input_text handler
InputTextHandler ==
  /\ Running("input_text", "start")
  /\ BackendAction(Top.args, "Entered text: \"" \o Top.args.text \o "\"", elementCache)
  /\ Elapse
  /\ UNCHANGED <<registryVars, self, parked, lastScreenshot, activePlatform, phase, request, response, ghostVars>>

\* the press_key handler
PressKeyHandler ==
  /\ Running("press_key", "start")
  /\ BackendAction(Top.args, "Pressed key: " \o Top.args.key, elementCache)
  /\ Elapse
  /\ UNCHANGED <<registryVars, self, parked, lastScreenshot, activePlatform, phase, request, response, ghostVars>>

(* ------------------------------------------------------------------ *)
(* Action hints                                                       *)
(* ------------------------------------------------------------------ *)
HintsHeader == "\n--- Hints ---"

\* diffUiElements: what appeared, what disappeared, and the two counts
DiffUiElements(before, after) ==
  [ appeared |-> after \ before, disappeared |-> before \ after,
    beforeCount |-> Cardinality(before), afterCount |-> Cardinality(after) ]

\* Array.prototype.join(", ")
RECURSIVE Join(_)
Join(S) ==
  IF S = {} THEN ""
  ELSE LET e == CHOOSE x \in S : TRUE IN
       IF S = { e } THEN e ELSE e \o ", " \o Join(S \ { e })

\* the lines of the hints (without the screen-changed line and the
\* suggestions)
HintsText(before, after) ==
  IF before = {} /\ after = {}
    THEN HintsHeader \o "\nNo UI elements detected."
    ELSE LET diff == DiffUiElements(before, after) IN
         HintsHeader
           \o (IF diff.appeared # {} THEN "\nNew: " \o Join(diff.appeared) ELSE "")
           \o (IF diff.disappeared # {} THEN "\nGone: " \o Join(diff.disappeared) ELSE "")
           \o "\nElements: " \o ToString(diff.beforeCount)
           \o " -> " \o ToString(diff.afterCount)

\* variant: the error of the re-capture is thrown on
generateActionHints_Rethrow(cap, before, after) ==
  IF Threw(cap)
    THEN [kind |-> "err", text |-> cap.message, cls |-> cap.cls, cached |-> FALSE]
    ELSE [kind |-> "ok", text |-> HintsText(before, after), cls |-> "", cached |-> TRUE]

\* generateActionHints with `cap` the outcome of the re-capture: the note when
\* it threw, else the diff of the cached elements against the fresh ones,
\* which are cached
generateActionHints(cap, before, after) ==
  IF Threw(cap)
    THEN [kind |-> "ok", text |-> HintsHeader \o "\nUnable to fetch UI state for hints: "
                                          \o cap.message,
          cls |-> "", cached |-> FALSE]
    ELSE [kind |-> "ok", text |-> HintsText(before, after), cls |-> "", cached |-> TRUE]

\* result += await ctx.generateActionHints(platform); return { text: result }
ActionHints ==
  /\ phase = "running"
  /\ Len(stack) > 0
  /\ Top.pc = "hints"
  /\ \E cap \in BackendOutcomes :
       LET plat == CurrentPlatform(Top.args)
           h == generateActionHints(cap, elementCache[plat], ui)
       IN
       /\ Return(IF h.kind = "ok" THEN Ok(Top.result \o h.text)
                                  ELSE Err(MkError(h.cls, h.text)))
       /\ elementCache' = IF h.cached THEN [elementCache EXCEPT ![plat] = ui]
                                      ELSE elementCache
  /\ Elapse
  /\ UNCHANGED <<registryVars, self, parked, lastScreenshot, activePlatform, ui, phase, request, response, ghostVars>>

(* ------------------------------------------------------------------ *)
(* UI tools                                                           *)
(* ------------------------------------------------------------------ *)
\* formatElement: the index and the text of an element of `elements`
FormatElement(elements, e) == "[" \o ToString(IndexIn(elements, e)) \o "] " \o e

\* the elements of S, one formatted line each
RECURSIVE FormatElements(_, _)
FormatElements(S, elements) ==
  IF S = {} THEN ""
  ELSE LET e == CHOOSE x \in S : TRUE IN
       FormatElement(elements, e)
         \o (IF S = { e } THEN "" ELSE "\n" \o FormatElements(S \ { e }, elements))

\* formatUiTree(parsedElements)
FormatUiTree(elements) == FormatElements(elements, elements)

FoundText(found, elements) ==
  "Found " \o ToString(Cardinality(found)) \o " element(s):\n" \o FormatElements(found, elements)

\* the get_ui handler
GetUi ==
  /\ Running("get_ui", "start")
  /\ LET currentPlatform == CurrentPlatform(Top.args) IN
     \E cap \in BackendOutcomes :
       IF currentPlatform = "ios"
         THEN \* getUiHierarchy("ios") in a try: a failure is reported as text
              /\ Return(Ok(IF Threw(cap)
                             THEN "iOS UI inspection requires WebDriverAgent.\n\nError: "
                                    \o cap.message
                             ELSE FormatUiTree(ui)))
              /\ UNCHANGED elementCache
       ELSE IF Threw(cap)
         THEN /\ Return(Err(cap))
              /\ UNCHANGED elementCache
       ELSE IF currentPlatform = "desktop"
         THEN /\ Return(Ok(FormatUiTree(ui)))
              /\ UNCHANGED elementCache
       ELSE /\ Return(Ok(FormatUiTree(ui)))
            /\ elementCache' = [elementCache EXCEPT !["android"] = ui]
  /\ UNCHANGED <<registryVars, self, parked, lastScreenshot, activePlatform, ui, now, phase, request,
                 response, ghostVars>>

\* the find_element handler, searching by text
FindElement ==
  /\ Running("find_element", "start")
  /\ LET currentPlatform == CurrentPlatform(Top.args)
         found == FindByText(ui, Top.args.text)
     IN
     \E cap \in BackendOutcomes :
       IF currentPlatform = "ios"
         THEN \* iosClient.findElements in a try: a failure is reported as text
              /\ Return(Ok(IF Threw(cap)
                             THEN "Find element failed: " \o cap.message
                           ELSE IF found = {} THEN "No elements found"
                           ELSE FoundText(found, ui)))
              /\ UNCHANGED elementCache
       ELSE IF Threw(cap)
         THEN /\ Return(Err(cap))
              /\ UNCHANGED elementCache
       ELSE \* getUiHierarchyAsync("android"), setCachedElements("android", ..)
            /\ Return(Ok(IF found = {} THEN "No elements found matching criteria"
                                       ELSE FoundText(found, ui)))
            /\ elementCache' = [elementCache EXCEPT !["android"] = ui]
  /\ UNCHANGED <<registryVars, self, parked, lastScreenshot, activePlatform, ui, now, phase, request,
                 response, ghostVars>>

NoMatch == [element |-> "", confidence |-> -1, reason |-> ""]

\* findBestMatch(elements, description): no match when no element scores
\* above zero, else the best element with a confidence of 0..100 and a reason;
\* as the set of the results the scoring can give
findBestMatch(elements, description) ==
  LET scored == { e \in elements : Includes(ToLower(e), ToLower(description)) } IN
  IF scored = {} \/ description = "" THEN { NoMatch }
  ELSE { [element |-> e, confidence |-> c,
          reason |-> IF c = 100 THEN "exact text match" ELSE "partial text match"] :
           e \in scored,
           c \in IF \E x \in scored : ToLower(x) = ToLower(description)
                   THEN { 100 } ELSE { 29, 30, 60 } }

\* variant: without minConfidence every match is accepted
MinConfidence_NoDefault(args) ==
  IF args.minConfidence = Absent THEN 0 ELSE args.minConfidence

\* (args.minConfidence as number) ?? 30
MinConfidence(args) ==
  IF args.minConfidence = Absent THEN 30 ELSE args.minConfidence

\* the find_and_tap handler
FindAndTap ==
  /\ Running("find_and_tap", "start")
  /\ LET args == Top.args
         currentPlatform == CurrentPlatform(args)
     IN
     IF currentPlatform # "android"
       THEN /\ Return(Ok("find_and_tap is only available for Android. Use tap with coordinates for iOS/Desktop."))
            /\ UNCHANGED <<ui, elementCache>>
     ELSE \* getUiHierarchyAsync("android"), setCachedElements("android", ..)
          \E cap \in BackendOutcomes :
            IF Threw(cap)
              THEN /\ Return(Err(cap))
                   /\ UNCHANGED <<ui, elementCache>>
            ELSE LET cache == [elementCache EXCEPT !["android"] = ui] IN
                 \E match \in findBestMatch(ui, args.description) :
                   IF match = NoMatch
                     THEN /\ Return(Ok("No element found matching \"" \o args.description
                                        \o "\". Try using get_ui or analyze_screen to see available elements."))
                          /\ elementCache' = cache
                          /\ UNCHANGED ui
                   ELSE IF match.confidence < MinConfidence(args)
                     THEN /\ Return(Ok("Best match has low confidence ("
                                        \o ToString(match.confidence) \o "%): "
                                        \o match.reason \o "\nElement: "
                                        \o FormatElement(ui, match.element)
                                        \o "\nSet minConfidence lower or use tap with coordinates."))
                          /\ elementCache' = cache
                          /\ UNCHANGED ui
                   ELSE \* deviceManager.tap(centerX, centerY, "android")
                        BackendAction(args,
                                      "Tapped \"" \o args.description \o "\" ("
                                        \o ToString(match.confidence)
                                        \o "% confidence)\nMatch: " \o match.reason
                                        \o "\nCoordinates: ("
                                        \o ToString(ElementCenter(match.element).x) \o ", "
                                        \o ToString(ElementCenter(match.element).y) \o ")",
                                      cache)
  /\ UNCHANGED <<registryVars, self, parked, lastScreenshot, activePlatform, now, phase, request,
                 response, ghostVars>>

WaitTimeout(args) == IF args.timeout = Absent THEN 5000 ELSE args.timeout
WaitInterval(args) == IF args.interval = Absent THEN 500 ELSE args.interval

\* variant: every error of a poll is thrown on
PollRethrows_Any(e) == TRUE

\* pollErr instanceof DeviceNotFoundError || DeviceOfflineError || AdbNotInstalledError
PollRethrows(e) == e.cls \in DeviceUnavailableClasses

\* the wait_for_element handler, searching by text: one poll of its loop, or
\* its end.  Every sleep lasts its interval and iter counts the sleeps, so
\* Date.now() - startTime is iter * interval; while the handler sleeps the
\* screen may change
WaitForElement ==
  /\ Running("wait_for_element", "start")
  /\ LET args == Top.args
         currentPlatform == CurrentPlatform(args)
         elapsed == Top.iter * WaitInterval(args)
         sleep == /\ stack' = [stack EXCEPT ![Len(stack)].iter = @ + 1]
                  /\ ret' = NoRet
                  /\ ui' \in SUBSET Texts
         end(val) == /\ Return(val)
                     /\ UNCHANGED ui
     IN
     IF args.text = ""
       THEN /\ end(Ok("Provide at least one search criteria: text, resourceId, or className"))
            /\ UNCHANGED elementCache
     ELSE IF ~(elapsed < WaitTimeout(args))
       THEN /\ end(Ok("Timeout after " \o ToString(WaitTimeout(args))
                        \o "ms: element not found (text=" \o args.text \o ")"))
            /\ UNCHANGED elementCache
     ELSE \E cap \in BackendOutcomes :
            IF currentPlatform \notin { "android", "ios" }
              THEN /\ sleep
                   /\ UNCHANGED elementCache
            ELSE IF Threw(cap)
              THEN /\ IF PollRethrows(cap) THEN end(Err(cap)) ELSE sleep
                   /\ UNCHANGED elementCache
            ELSE /\ elementCache' = IF currentPlatform = "android"
                                      THEN [elementCache EXCEPT !["android"] = ui]
                                      ELSE elementCache
                 /\ IF FindByText(ui, args.text) # {}
                      THEN end(Ok("Element found after " \o ToString(elapsed) \o "ms:\n"
                                    \o FormatElements(FindByText(ui, args.text), ui)))
                      ELSE sleep
  /\ UNCHANGED <<registryVars, self, parked, lastScreenshot, activePlatform, now, phase, request,
                 response, ghostVars>>

\* the assert_visible handler, checking by text
AssertVisible ==
  /\ Running("assert_visible", "start")
  /\ LET args == Top.args
         currentPlatform == CurrentPlatform(args)
     IN
     IF args.text = ""
       THEN /\ Return(Ok("Provide text or resourceId to assert"))
            /\ UNCHANGED elementCache
     ELSE \E cap \in BackendOutcomes :
            IF currentPlatform \in { "android", "ios" } /\ Threw(cap)
              THEN /\ Return(Err(cap))
                   /\ UNCHANGED elementCache
            ELSE LET elements == IF currentPlatform \in { "android", "ios" } THEN ui ELSE {}
                     found == FindByText(elements, args.text)
                 IN
                 /\ elementCache' = IF currentPlatform = "android"
                                      THEN [elementCache EXCEPT !["android"] = ui]
                                      ELSE elementCache
                 /\ Return(Ok(IF found # {}
                                THEN "PASS: Element visible - "
                                       \o FormatElements(found, elements)
                                ELSE "FAIL: Element not visible (text=" \o args.text
                                       \o ", resourceId=)"))
  /\ UNCHANGED <<registryVars, self, parked, lastScreenshot, activePlatform, ui, now, phase, request,
                 response, ghostVars>>

(* ------------------------------------------------------------------ *)
(* Screenshot tools                                                   *)
(* ------------------------------------------------------------------ *)
STABLE_THRESHOLD_PERCENT == 2

STABLE_MAX_RETRIES == 3

\* the n-th buffer captured by an activation of the running call: every
\* capture returns a Buffer of its own
Buffer(n) == n + (self - 1) * (STABLE_MAX_RETRIES + 2)

\* variant: the loop runs one more round
AnotherRound_Inclusive(i) == i <= STABLE_MAX_RETRIES

\* i < STABLE_MAX_RETRIES: the loop of waitForStableScreenshot goes on
AnotherRound(i) == i < STABLE_MAX_RETRIES

\* change percentages a comparison can report
DiffPercents == { 0, 1, 2, 4, 5, 50, 79, 80, 100 }

\* compareScreenshots: any ScreenDiff, the changed region being optional and
\* absent when nothing changed
ScreenDiffs ==
  { d \in [changePercent : DiffPercents, changedRegion : BOOLEAN] :
      d.changePercent = 0 => ~d.changedRegion }

\* variant: a localized change is always cropped, however large
DiffAnswer_CropLocalized(diff, pngBuffer) ==
  IF diff.changePercent < 5
    THEN Ok("Screen unchanged (" \o ToString(diff.changePercent) \o "% diff)")
  ELSE IF ~diff.changedRegion
    THEN Image("full", pngBuffer,
               "Screen changed significantly (" \o ToString(diff.changePercent)
                 \o "% diff) - full screenshot")
  ELSE Image("crop", pngBuffer,
             "Changed region (" \o ToString(diff.changePercent) \o "% diff)")

\* what diff mode answers for the comparison `diff` of the previous buffer
\* with `pngBuffer`
DiffAnswer(diff, pngBuffer) ==
  IF diff.changePercent < 5
    THEN Ok("Screen unchanged (" \o ToString(diff.changePercent) \o "% diff)")
  ELSE IF diff.changePercent >= 80 \/ ~diff.changedRegion
    THEN Image("full", pngBuffer,
               "Screen changed significantly (" \o ToString(diff.changePercent)
                 \o "% diff) - full screenshot")
  ELSE Image("crop", pngBuffer,
             "Changed region (" \o ToString(diff.changePercent) \o "% diff)")

\* entry of the screenshot handler: the first capture, which is the only one
\* unless waitForStable === true
ScreenshotCapture ==
  /\ Running("screenshot", "start")
  /\ \E o \in BackendOutcomes :
       IF Threw(o)
         THEN Return(Err(o))
         ELSE /\ stack' = [stack EXCEPT
                             ![Len(stack)].ns = 1,
                             ![Len(stack)].prev = Buffer(1),
                             ![Len(stack)].i = 0,
                             ![Len(stack)].buf =
                                IF Top.args.waitForStable = "true" THEN NoBuffer ELSE Buffer(1),
                             ![Len(stack)].pc =
                                IF Top.args.waitForStable = "true" THEN "stable" ELSE "shot"]
              /\ ret' = NoRet
  /\ UNCHANGED <<registryVars, self, parked, lastScreenshot, deviceVars, now, phase, request, response,
                 ghostVars>>

\* one round of the loop of waitForStableScreenshot, or its end
ScreenshotStable ==
  /\ Running("screenshot", "stable")
  /\ IF AnotherRound(Top.i)
       THEN \E o \in BackendOutcomes, changePercent \in DiffPercents :
              LET next == Top.ns + 1
                  \* of the comparison the loop reads the change percentage only
                  diff == [changePercent |-> changePercent]
              IN
              IF Threw(o)
                THEN Return(Err(o))
              ELSE IF diff.changePercent < STABLE_THRESHOLD_PERCENT
                THEN /\ stack' = [stack EXCEPT ![Len(stack)].ns = next,
                                               ![Len(stack)].changePercent = diff.changePercent,
                                               ![Len(stack)].buf = Buffer(next),
                                               ![Len(stack)].pc = "shot"]
                     /\ ret' = NoRet
              ELSE /\ stack' = [stack EXCEPT ![Len(stack)].ns = next,
                                             ![Len(stack)].changePercent = diff.changePercent,
                                             ![Len(stack)].prev = Buffer(next),
                                             ![Len(stack)].i = @ + 1]
                   /\ ret' = NoRet
       ELSE /\ stack' = [stack EXCEPT ![Len(stack)].buf = Top.prev,
                                      ![Len(stack)].pc = "shot"]
            /\ ret' = NoRet
  /\ UNCHANGED <<registryVars, self, parked, lastScreenshot, deviceVars, now, phase, request, response,
                 ghostVars>>

\* variant: the entry is written only when there is none
Stored_KeepPrevious(prevBuffer, pngBuffer) ==
  IF prevBuffer = NoBuffer THEN pngBuffer ELSE prevBuffer

\* ctx.lastScreenshotMap.set(currentPlatform, pngBuffer): the new entry
Stored(prevBuffer, pngBuffer) == pngBuffer

\* the handler with pngBuffer in hand: the cache entry of the platform is
\* read into prevBuffer and replaced, in one go; what follows is awaited
\* (compressScreenshot, compareScreenshots)
ScreenshotStore ==
  /\ Running("screenshot", "shot")
  /\ LET currentPlatform == CurrentPlatform(Top.args)
         pngBuffer == Top.buf
         prevBuffer == lastScreenshot[currentPlatform]
     IN
     /\ lastScreenshot' = [lastScreenshot EXCEPT
                            ![currentPlatform] = Stored(prevBuffer, pngBuffer)]
     /\ stack' = [stack EXCEPT ![Len(stack)].prev = prevBuffer,
                               ![Len(stack)].pc = "answer"]
     /\ ret' = NoRet
  /\ UNCHANGED <<registryVars, self, parked, deviceVars, now, phase, request, response, ghostVars>>

\* the answer: diff mode compares pngBuffer with the prevBuffer it has read
ScreenshotFinish ==
  /\ Running("screenshot", "answer")
  /\ LET pngBuffer == Top.buf
         prevBuffer == Top.prev
     IN
     IF Top.args.diff = "true"
       THEN IF prevBuffer = NoBuffer
              THEN Return(Image("full", pngBuffer, "First screenshot (no previous to diff against)"))
              ELSE \E diff \in ScreenDiffs : Return(DiffAnswer(diff, pngBuffer))
       ELSE Return(Image("full", pngBuffer, ""))
  /\ UNCHANGED <<registryVars, self, parked, lastScreenshot, deviceVars, now, phase, request,
                 response, ghostVars>>

\* the annotate_screenshot handler
AnnotateScreenshot ==
  /\ Running("annotate_screenshot", "start")
  /\ LET currentPlat == CurrentPlatform(Top.args) IN
     IF currentPlat = "desktop"
       THEN Return(Ok("annotate_screenshot is not supported for desktop platform. Use screenshot + get_ui instead."))
       ELSE \E shot \in BackendOutcomes, cap \in BackendOutcomes :
              IF Threw(shot)
                THEN Return(Err(shot))
              ELSE IF currentPlat = "android" /\ Threw(cap)
                THEN Return(Err(cap))
              ELSE \* on iOS a failing capture is logged and leaves no elements
                   LET uiElements == IF Threw(cap) THEN {} ELSE ui IN
                   IF uiElements = {}
                     THEN Return(Image("full", Buffer(1),
                                       "No UI elements found to annotate. Returning plain screenshot."))
                     ELSE Return(Image("annotated", Buffer(1),
                                       "Annotated " \o ToString(Cardinality(uiElements))
                                         \o " elements:\n"
                                         \o FormatElements(uiElements, uiElements)))
  /\ UNCHANGED <<registryVars, self, parked, lastScreenshot, deviceVars, now, phase, request, response,
                 ghostVars>>

(* ------------------------------------------------------------------ *)
(* batch_commands                                                     *)
(* ------------------------------------------------------------------ *)
\* variant: only an explicit true stops the batch
StopOnError_ExplicitOnly(args) == args.stopOnError = "true"

\* args.stopOnError !== false
StopOnError(args) == args.stopOnError # "false"

\* variant: the summary reports one failure however many there were
Failed_AtMostOne(results) ==
  IF \E k \in 1..Len(results) : ~results[k].success THEN 1 ELSE 0

\* results.filter(r => !r.success).length
Failed(results) == Cardinality({ k \in 1..Len(results) : ~results[k].success })

BatchSummary(results, commands) ==
  IF Failed(results) > 0
    THEN "Batch: " \o ToString(Len(results)) \o "/" \o ToString(Len(commands))
           \o " executed, " \o ToString(Failed(results)) \o " failed"
    ELSE "Batch: " \o ToString(Len(results)) \o " commands OK"

\* entry of the handler: depth guard and the empty-list answer
BatchStart ==
  /\ Running("batch_commands", "start")
  /\ IF Top.depth > MAX_RECURSION_DEPTH
       THEN Return(Err(MkError("Error", RecursionMessage)))
     ELSE IF Len(Top.args.commands) = 0
       THEN Return(Ok("No commands provided"))
     ELSE /\ stack' = [stack EXCEPT ![Len(stack)].pc = "loop", ![Len(stack)].i = 1]
          /\ ret' = NoRet
  /\ UNCHANGED <<registryVars, self, parked, lastScreenshot, deviceVars, now, phase, request, response, ghostVars>>

\* head of the for loop: dispatch the next command one level deeper
BatchDispatch ==
  /\ Running("batch_commands", "loop")
  /\ Top.i <= Len(Top.args.commands)
  /\ LET cmd == Top.args.commands[Top.i]
         me == [Top EXCEPT !.pc = "await", !.nd = @ + 1]
     IN Dispatch(Append(Below, me), cmd.name, cmd.arguments, ChildDepth(Top))
  /\ UNCHANGED <<registryVars, self, parked, lastScreenshot, deviceVars, now, phase, request, response>>

\* the awaited dispatch returned or threw; of a composite's text the entry
\* keeps the summary line
BatchAwait ==
  /\ Running("batch_commands", "await")
  /\ ret.kind # "none"
  /\ LET cmd == Top.args.commands[Top.i]
         entry == [command |-> cmd.name, success |-> ret.kind = "ok", result |-> ret.text]
         brk == ret.kind = "err" /\ StopOnError(Top.args)
     IN stack' = [stack EXCEPT ![Len(stack)].results = Append(@, entry),
                               ![Len(stack)].i = IF brk THEN @ ELSE @ + 1,
                               ![Len(stack)].pc = IF brk THEN "break" ELSE "loop"]
  /\ ret' = NoRet
  /\ UNCHANGED <<registryVars, self, parked, lastScreenshot, deviceVars, now, phase, request, response, ghostVars>>

\* after the loop: the summary and the numbered lines
BatchFinish ==
  /\ \/ Running("batch_commands", "break")
     \/ Running("batch_commands", "loop") /\ Top.i > Len(Top.args.commands)
  /\ Return(Report(BatchSummary(Top.results, Top.args.commands), Top.results))
  /\ UNCHANGED <<registryVars, self, parked, lastScreenshot, deviceVars, now, phase, request, response, ghostVars>>

(* ------------------------------------------------------------------ *)
(* run_flow                                                           *)
(* ------------------------------------------------------------------ *)
Min(a, b) == IF a <= b THEN a ELSE b

\* variant: a missing on_error means "skip"
OnError_DefaultSkip(step) == IF step.on_error = Undefined THEN "skip" ELSE step.on_error

\* variant: "skip" is handled like "stop"
OnError_SkipStops(step) ==
  IF step.on_error \in { Undefined, "skip" } THEN "stop" ELSE step.on_error

\* step.on_error ?? "stop"
OnError(step) == IF step.on_error = Undefined THEN "stop" ELSE step.on_error

\* variant: the count is taken as written, without the cap
RepeatTimes_Unclamped(step) ==
  IF step.repeat.times # 0 THEN step.repeat.times ELSE 1

\* step.repeat?.times ? Math.min(times, FLOW_MAX_REPEAT) : 1
RepeatTimes(step) ==
  IF step.repeat.times # 0 THEN Min(step.repeat.times, FLOW_MAX_REPEAT) ELSE 1

HasRepeatCondition(step) ==
  step.repeat.until_found # "" \/ step.repeat.until_not_found # ""

\* variant: a condition loop runs as long as the largest count asks
MaxIterations_Uncapped(step) ==
  IF HasRepeatCondition(step) THEN BigRepeat ELSE RepeatTimes(step)

\* variant: a count, when given, caps a condition loop too
MaxIterations_TimesFirst(step) ==
  IF step.repeat.times # 0 THEN RepeatTimes(step)
  ELSE IF HasRepeatCondition(step) THEN FLOW_MAX_REPEAT ELSE 1

\* hasRepeatCondition ? FLOW_MAX_REPEAT : repeatTimes
MaxIterations(step) ==
  IF HasRepeatCondition(step) THEN FLOW_MAX_REPEAT ELSE RepeatTimes(step)

MaxDuration(args) ==
  Min(IF args.maxDuration = Absent THEN DEFAULT_MAX_DURATION ELSE args.maxDuration,
      FLOW_MAX_DURATION)

\* Date.now() - flowStart > maxDuration
TimedOut(f) == now - f.flowStart > MaxDuration(f.args)

StepArgs(f) == [f.args.steps[f.i].args EXCEPT !.platform = CurrentPlatform(f.args)]

IsNotFound(message) == Includes(message, "not found") \/ Includes(message, "No element")

\* variant: the ceiling is one step too high
TooManySteps_OffByOne(steps) == Len(steps) > FLOW_MAX_STEPS + 1

\* steps.length > FLOW_MAX_STEPS
TooManySteps(steps) == Len(steps) > FLOW_MAX_STEPS

\* variant: only the first step is validated up front
FlowValid_FirstOnly(steps) == steps[1].action \in FLOW_ALLOWED_ACTIONS

\* the validation loop: every action is in the allow-list
FlowValid(steps) == \A k \in 1..Len(steps) : steps[k].action \in FLOW_ALLOWED_ACTIONS

FirstDisallowed(steps) ==
  steps[CHOOSE k \in 1..Len(steps) :
          /\ steps[k].action \notin FLOW_ALLOWED_ACTIONS
          /\ \A j \in 1..(k - 1) : steps[j].action \in FLOW_ALLOWED_ACTIONS].action

NotAllowedText(action) == "Action \"" \o action \o "\" is not allowed in flows."
TooManyText(n) ==
  "Too many steps (" \o ToString(n) \o "). Maximum is " \o ToString(FLOW_MAX_STEPS) \o "."
SkippedText == "Skipped (element not found)"
After(message, inf) == message \o " (after " \o inf \o ")"
FlowCompleted == "Flow completed"

\* variant: every entry carries the ordinal of the first step
Entry_FirstStep(f, success, message) ==
  [ step |-> 1, action |-> f.args.steps[f.i].action,
    success |-> success, message |-> message ]

\* a FlowStepResult of the current step (durationMs left out)
Entry(f, success, message) ==
  [ step |-> f.i, action |-> f.args.steps[f.i].action,
    success |-> success, message |-> message ]

\* variant: the retry after the swipe is recorded as a success whatever it did
RetryEntry_AlwaysOk(f, r) ==
  Entry(f, TRUE, After(Slice(r.text, RETRY_SLICE), f.args.steps[f.i].if_not_found))

\* the result recorded for the retry that follows the fallback swipe
RetryEntry(f, r) ==
  IF r.kind = "ok"
    THEN Entry(f, TRUE, After(Slice(r.text, RETRY_SLICE), f.args.steps[f.i].if_not_found))
    ELSE Entry(f, FALSE, After(r.text, f.args.steps[f.i].if_not_found))

\* entry of the handler: depth guard, argument checks, validation
FlowStart ==
  /\ Running("run_flow", "start")
  /\ LET steps == Top.args.steps IN
     IF Top.depth > MAX_RECURSION_DEPTH
       THEN Return(Err(MkError("Error", RecursionMessage)))
     ELSE IF Len(steps) = 0
       THEN Return(Ok("No steps provided"))
     ELSE IF TooManySteps(steps)
       THEN Return(Ok(TooManyText(Len(steps))))
     ELSE IF ~FlowValid(steps)
       THEN Return(Ok(NotAllowedText(FirstDisallowed(steps))))
     ELSE /\ stack' = [stack EXCEPT ![Len(stack)].pc = "step",
                                    ![Len(stack)].i = 1,
                                    ![Len(stack)].flowStart = now]
          /\ ret' = NoRet
  /\ UNCHANGED <<registryVars, self, parked, lastScreenshot, deviceVars, now, phase, request, response, ghostVars>>

\* head of the step loop: end of the flow, the budget check, or a new step
FlowStep ==
  /\ Running("run_flow", "step")
  /\ IF Top.i > Len(Top.args.steps)
       THEN Return(Report(FlowCompleted, Top.results))
     ELSE IF TimedOut(Top)
       THEN Return(Report(FlowCompleted,
                          Append(Top.results,
                                 Entry(Top, FALSE, "Flow timeout ("
                                                      \o ToString(MaxDuration(Top.args))
                                                      \o "ms exceeded)"))))
     ELSE /\ stack' = [stack EXCEPT ![Len(stack)].pc = "iter",
                                    ![Len(stack)].iter = 0,
                                    ![Len(stack)].last = NoResult,
                                    ![Len(stack)].sw = 0,
                                    ![Len(stack)].re = 0]
          /\ ret' = NoRet
  /\ UNCHANGED <<registryVars, self, parked, lastScreenshot, deviceVars, now, phase, request, response, ghostVars>>

\* head of the iteration loop, loop continues: dispatch the step's action
FlowDispatch ==
  /\ Running("run_flow", "iter")
  /\ Top.iter < MaxIterations(Top.args.steps[Top.i])
  /\ ~TimedOut(Top)
  /\ LET me == [Top EXCEPT !.pc = "await", !.nd = @ + 1] IN
     Dispatch(Append(Below, me), Top.args.steps[Top.i].action, StepArgs(Top), ChildDepth(Top))
  /\ UNCHANGED <<registryVars, self, parked, lastScreenshot, deviceVars, now, phase, request, response>>

\* head of the iteration loop, loop ends: iterations used up or budget spent
FlowLoopExit ==
  /\ Running("run_flow", "iter")
  /\ Top.iter >= MaxIterations(Top.args.steps[Top.i]) \/ TimedOut(Top)
  /\ stack' = [stack EXCEPT
                 ![Len(stack)].pc = "endstep",
                 ![Len(stack)].exceeded =
                    @ \/ Top.iter < MaxIterations(Top.args.steps[Top.i])]
  /\ ret' = NoRet
  /\ UNCHANGED <<registryVars, self, parked, lastScreenshot, deviceVars, now, phase, request, response, ghostVars>>

\* the catch block of the iteration, entered with the thrown error `e`
FlowCatch(e) ==
  LET f == Top
      step == f.args.steps[f.i]
      inf == step.if_not_found
      failure == Entry(f, FALSE, e.text)
  IN
  IF IsNotFound(e.text) /\ inf # Undefined
    THEN IF inf = "skip"
           THEN /\ stack' = [stack EXCEPT ![Len(stack)].last = Entry(f, TRUE, SkippedText),
                                          ![Len(stack)].pc = "endstep"]
                /\ ret' = NoRet
                /\ UNCHANGED <<now, ghostVars>>
         ELSE IF inf \in { "scroll_down", "scroll_up" }
           THEN /\ LET me == [f EXCEPT !.pc = "swipe_await", !.nd = @ + 1, !.sw = @ + 1]
                       swipeArgs == [NoArgs EXCEPT
                                       !.direction = IF inf = "scroll_down" THEN "up" ELSE "down",
                                       !.platform = CurrentPlatform(f.args)]
                   IN Dispatch(Append(Below, me), "swipe", swipeArgs, ChildDepth(f))
                /\ UNCHANGED now
         ELSE /\ stack' = [stack EXCEPT ![Len(stack)].last = failure,
                                        ![Len(stack)].pc = "endstep"]
              /\ ret' = NoRet
              /\ UNCHANGED <<now, ghostVars>>
  ELSE IF OnError(step) = "retry" /\ f.iter < MaxIterations(step) - 1
    THEN \* sleep 300 ms, continue
         /\ stack' = [stack EXCEPT ![Len(stack)].iter = @ + 1,
                                   ![Len(stack)].pc = "iter"]
         /\ ret' = NoRet
         /\ Elapse
         /\ UNCHANGED ghostVars
  ELSE IF OnError(step) = "stop"
    THEN /\ Return(Report(FlowCompleted, Append(f.results, failure)))
         /\ UNCHANGED <<now, ghostVars>>
  ELSE /\ stack' = [stack EXCEPT ![Len(stack)].last = failure,
                                 ![Len(stack)].pc = "endstep"]
       /\ ret' = NoRet
       /\ UNCHANGED <<now, ghostVars>>

\* variant: an answer that tells of a missing element counts as thrown
Raised_OrNotFoundText(r) ==
  r.kind = "err" \/ IsNotFound(r.text) \/ Includes(r.text, "FAIL")

\* the awaited handleTool call threw: control is in the catch block
Raised(r) == r.kind = "err"

\* the awaited dispatch of the step returned or threw
FlowAwait ==
  /\ Running("run_flow", "await")
  /\ ret.kind # "none"
  /\ IF ~Raised(ret)
       THEN /\ stack' = [stack EXCEPT
                           ![Len(stack)].last = Entry(Top, TRUE, Slice(ret.text, MESSAGE_SLICE)),
                           ![Len(stack)].pc =
                              IF HasRepeatCondition(Top.args.steps[Top.i]) THEN "capture" ELSE "iter",
                           ![Len(stack)].iter =
                              IF HasRepeatCondition(Top.args.steps[Top.i]) THEN @ ELSE @ + 1]
            /\ ret' = NoRet
            /\ UNCHANGED <<now, ghostVars>>
       ELSE FlowCatch(ret)
  /\ UNCHANGED <<registryVars, self, parked, lastScreenshot, deviceVars, phase, request, response>>

\* ctx.getElementsForPlatform(currentPlatform) for the exit predicate
FlowCapture ==
  /\ Running("run_flow", "capture")
  /\ LET plat == CurrentPlatform(Top.args) IN
     \E o \in BackendOutcomes :
       IF Threw(o)
         THEN /\ ret' = Err(o)
              /\ UNCHANGED elementCache
         ELSE /\ ret' = Captured(ui)
              /\ elementCache' = [elementCache EXCEPT ![plat] = ui]
  /\ stack' = [stack EXCEPT ![Len(stack)].pc = "cond", ![Len(stack)].nc = @ + 1]
  /\ Elapse
  /\ UNCHANGED <<registryVars, self, parked, lastScreenshot, activePlatform, ui, phase, request, response, ghostVars>>

\* the exit predicate on the fresh capture, or the capture's error
FlowCond ==
  /\ Running("run_flow", "cond")
  /\ ret.kind # "none"
  /\ LET step == Top.args.steps[Top.i]
         untilFound == step.repeat.until_found
         untilNotFound == step.repeat.until_not_found
         again == /\ stack' = [stack EXCEPT ![Len(stack)].iter = @ + 1,
                                            ![Len(stack)].pc = "iter"]
                  /\ ret' = NoRet
                  /\ Elapse
                  /\ UNCHANGED ghostVars
         break == /\ stack' = [stack EXCEPT ![Len(stack)].pc = "endstep"]
                  /\ ret' = NoRet
                  /\ UNCHANGED <<now, ghostVars>>
     IN
     IF ret.kind = "ok"
       THEN IF untilFound # "" /\ FindByText(ret.elements, untilFound) # {}
              THEN break
            ELSE IF untilNotFound # "" /\ FindByText(ret.elements, untilNotFound) = {}
              THEN break
            ELSE again
     ELSE IF ret.cls \in DeviceUnavailableClasses
       THEN \* throw condErr: lands in the catch block of the same iteration
            FlowCatch(ret)
     ELSE again
  /\ UNCHANGED <<registryVars, self, parked, lastScreenshot, deviceVars, phase, request, response>>

\* the fallback swipe returned or threw
FlowSwipeAwait ==
  /\ Running("run_flow", "swipe_await")
  /\ ret.kind # "none"
  /\ IF ret.kind = "ok"
       THEN \* sleep 300 ms, then dispatch the original step again
            /\ LET me == [Top EXCEPT !.pc = "retry_await", !.nd = @ + 1, !.re = @ + 1] IN
               Dispatch(Append(Below, me), Top.args.steps[Top.i].action, StepArgs(Top),
                        ChildDepth(Top))
            /\ Elapse
       ELSE /\ stack' = [stack EXCEPT
                           ![Len(stack)].last =
                              Entry(Top, FALSE, After(ret.text, Top.args.steps[Top.i].if_not_found)),
                           ![Len(stack)].pc = "endstep"]
            /\ ret' = NoRet
            /\ UNCHANGED <<now, ghostVars>>
  /\ UNCHANGED <<registryVars, self, parked, lastScreenshot, deviceVars, phase, request, response>>

\* the retry after the swipe returned or threw
FlowRetryAwait ==
  /\ Running("run_flow", "retry_await")
  /\ ret.kind # "none"
  /\ stack' = [stack EXCEPT ![Len(stack)].last = RetryEntry(Top, ret),
                            ![Len(stack)].pc = "endstep"]
  /\ ret' = NoRet
  /\ UNCHANGED <<registryVars, self, parked, lastScreenshot, deviceVars, now, phase, request, response, ghostVars>>

\* after the iteration loop: append the step's result, stop on a failure
FlowEndStep ==
  /\ Running("run_flow", "endstep")
  /\ LET f == Top
         results == Append(f.results, f.last)
     IN
     IF f.last # NoResult
       THEN IF ~f.last.success /\ OnError(f.args.steps[f.i]) = "stop"
              THEN Return(Report(FlowCompleted, results))
              ELSE /\ stack' = [stack EXCEPT ![Len(stack)].results = results,
                                             ![Len(stack)].i = @ + 1,
                                             ![Len(stack)].pc = "step"]
                   /\ ret' = NoRet
       ELSE /\ stack' = [stack EXCEPT ![Len(stack)].i = @ + 1,
                                      ![Len(stack)].pc = "step"]
            /\ ret' = NoRet
  /\ UNCHANGED <<registryVars, self, parked, lastScreenshot, deviceVars, now, phase, request, response, ghostVars>>

(* ------------------------------------------------------------------ *)
(* Specification                                                      *)
(* ------------------------------------------------------------------ *)
Next ==
  \/ Serve(Requests)
  \/ Respond
  \/ Tap
  \/ Swipe
  \/ InputTextHandler
  \/ PressKeyHandler
  \/ ActionHints
  \/ BatchStart
  \/ BatchDispatch
  \/ BatchAwait
  \/ BatchFinish
  \/ FlowStart
  \/ FlowStep
  \/ FlowDispatch
  \/ FlowLoopExit
  \/ FlowAwait
  \/ FlowCapture
  \/ FlowCond
  \/ FlowSwipeAwait
  \/ FlowRetryAwait
  \/ FlowEndStep

Spec == Init /\ [][Next]_vars

(* ------------------------------------------------------------------ *)
(* The registry on its own: registrations, then a call                *)
(* ------------------------------------------------------------------ *)
\* arrays of definitions handed to registerTools; "click" is also the name of
\* an alias, the last array names one tool twice, and "tap" is registered
\* with either of two handlers
DefBatches ==
  { <<ToolDef("tap", "tap")>>,
    <<ToolDef("tap", "swipe")>>,
    <<ToolDef("swipe", "swipe")>>,
    <<ToolDef("tap", "tap"), ToolDef("swipe", "swipe")>>,
    <<ToolDef("click", "tap"), ToolDef("click", "swipe")>> }

\* records handed to registerAliases; press_key is never registered here
AliasBatches ==
  { [a \in { "click" } |-> "tap"],
    [a \in { "click" } |-> "swipe"],
    [a \in { "tap" } |-> "swipe"],
    [a \in { "press_button", "scroll" } |->
       IF a = "scroll" THEN "swipe" ELSE "press_key"] }

RegistryRequests ==
  { Cmd(name, [NoArgs EXCEPT !.x = 1, !.y = 1, !.direction = "up"]) :
      name \in { "tap", "swipe", "click", "scroll", "press_button", "no_such_tool" } }

RegistryInit ==
  /\ toolMap = [n \in {} |-> ToolDef("", "")]
  /\ aliasMap = [n \in {} |-> ""]
  /\ activePlatform \in Platforms
  /\ ui \in SUBSET Texts
  /\ elementCache = [p \in Targets |-> {}]
  /\ lastScreenshot = [p \in Targets |-> NoBuffer]
  /\ now = 0
  /\ phase = "idle"
  /\ request = UnknownCmd
  /\ stack = << >>
  /\ ret = NoRet
  /\ response = [kind |-> "none", text |-> "", isError |-> FALSE]
  /\ lastDispatch = [name |-> "", depth |-> 0, out |-> "none"]
  /\ recursionHit = FALSE
  /\ self = 1
  /\ parked = NoCall

RegisterTools ==
  /\ phase = "idle"
  /\ \E defs \in DefBatches : registerTools(defs)
  /\ UNCHANGED <<aliasMap, deviceVars, self, parked, lastScreenshot, now, phase, request, stack, ret,
                 response,
                 ghostVars>>

RegisterAliases ==
  /\ phase = "idle"
  /\ \E aliases \in AliasBatches : registerAliases(aliases)
  /\ UNCHANGED <<toolMap, deviceVars, self, parked, lastScreenshot, now, phase, request, stack, ret,
                 response,
                 ghostVars>>

RegistryNext ==
  \/ RegisterTools
  \/ RegisterAliases
  \/ Serve(RegistryRequests)
  \/ Tap
  \/ Swipe
  \/ Respond

RegistrySpec == RegistryInit /\ [][RegistryNext]_vars

(* ------------------------------------------------------------------ *)
(* A session of calls to the UI and screenshot tools                  *)
(* ------------------------------------------------------------------ *)

FindAndTapCmd(description, minConfidence, plat) ==
  Cmd("find_and_tap", [NoArgs EXCEPT !.description = description,
                                      !.minConfidence = minConfidence,
                                      !.platform = plat])

Screenshot(diff, stable, plat) ==
  Cmd("screenshot", [NoArgs EXCEPT !.diff = diff, !.waitForStable = stable,
                                   !.platform = plat])

SessionRequests ==
  { Screenshot(d, s, p) :
      d \in { Undefined, "true" }, s \in { Undefined, "true" }, p \in { Undefined, "ios" } }
    \cup { Cmd("get_ui", [NoArgs EXCEPT !.platform = p]) : p \in { Undefined } \cup Targets }
    \cup { Cmd("find_element", [NoArgs EXCEPT !.text = "submit", !.platform = p]) :
             p \in { Undefined, "desktop" } }
    \cup { Cmd("annotate_screenshot", [NoArgs EXCEPT !.platform = p]) :
             p \in { Undefined, "desktop" } }
    \cup { Cmd("wait_for_element",
               [NoArgs EXCEPT !.text = t, !.timeout = 1000, !.platform = p]) :
             t \in { "", "Submit" }, p \in { Undefined, "desktop" } }
    \cup { Cmd("tap", [NoArgs EXCEPT !.index = k]) : k \in { 0, 1 } }
    \cup { TapXY, TapText("Submit"), TapText("Cancel"), Cmd("tap", NoArgs) }
    \cup { FindAndTapCmd(d, m, Undefined) : d \in { "sub", "cancel" }, m \in { Absent, 60 } }
    \cup { FindAndTapCmd("submit", Absent, Undefined), FindAndTapCmd("sub", Absent, "desktop") }

SessionInit ==
  /\ toolMap = [n \in { "tap", "get_ui", "find_element", "find_and_tap", "wait_for_element",
                          "screenshot", "annotate_screenshot" } |-> ToolDef(n, n)]
  /\ aliasMap = [n \in {} |-> ""]
  /\ activePlatform \in Platforms
  /\ ui \in SUBSET Texts
  /\ elementCache = [p \in Targets |-> {}]
  /\ lastScreenshot = [p \in Targets |-> NoBuffer]
  /\ now = 0
  /\ phase = "idle"
  /\ request = UnknownCmd
  /\ stack = << >>
  /\ ret = NoRet
  /\ response = [kind |-> "none", text |-> "", isError |-> FALSE]
  /\ lastDispatch = [name |-> "", depth |-> 0, out |-> "none"]
  /\ recursionHit = FALSE
  /\ self = 1
  /\ parked = NoCall

\* the request handler is called for the first or for a further tool call
SessionRequest ==
  /\ phase \in { "idle", "done" }
  /\ \E r \in SessionRequests :
       /\ request' = r
       /\ Dispatch(<< >>, r.name, r.arguments, 0)
  /\ phase' = "running"
  /\ response' = [kind |-> "none", text |-> "", isError |-> FALSE]
  /\ UNCHANGED <<registryVars, self, parked, lastScreenshot, deviceVars, now>>

SessionNext ==
  \/ SessionRequest
  \/ Respond
  \/ Tap
  \/ GetUi
  \/ FindElement
  \/ FindAndTap
  \/ WaitForElement
  \/ ScreenshotCapture
  \/ ScreenshotStable
  \/ ScreenshotStore
  \/ ScreenshotFinish
  \/ AnnotateScreenshot

SessionSpec == SessionInit /\ [][SessionNext]_vars

\* every await of waitForStableScreenshot completes: the sleep ends, and the
\* capture and the comparison return or throw
SessionFairSpec == SessionSpec /\ WF_vars(ScreenshotStable)

\* every await of wait_for_element completes: the capture returns or throws,
\* and the timer of the sleep fires
WaitFairSpec == SessionSpec /\ WF_vars(WaitForElement)

(* ------------------------------------------------------------------ *)
(* Flows over the UI tools, with aliases registered                   *)
(* ------------------------------------------------------------------ *)

\* records handed to registerAliases: an alias of an allowed action, an alias
\* that carries the name of an allowed action, and an alias of batch_commands
FlowAliasBatches ==
  { [a \in { "click" } |-> "tap"],
    [a \in { "tap", "press" } |-> "batch_commands"] }

\* the step under study, by a tool whose negative outcome is a text
ProbeSteps ==
  { MkStep(cmd, inf, NoRepeat, onerr) :
      cmd \in { TapText("Submit"),
                Cmd("wait_for_element", [NoArgs EXCEPT !.text = "Submit", !.timeout = 1000]),
                Cmd("assert_visible", [NoArgs EXCEPT !.text = "Submit"]) },
      inf \in { Undefined, "skip", "scroll_down" },
      onerr \in { Undefined, "skip", "retry" } }

\* repeat-until steps whose exit predicate never holds, with and without a
\* count, and counted steps that retry
CapSteps ==
  { MkStep(TapXY, Undefined, [NoRepeat EXCEPT !.times = n, !.until_found = "never"], onerr) :
      n \in { 0, 2 }, onerr \in { Undefined, "retry" } }
    \cup { MkStep(TapXY, Undefined, [NoRepeat EXCEPT !.times = 2], "retry") }

\* steps that name an alias, a tool outside the allow-list, or an alias of one
AliasSteps ==
  { PlainStep(Cmd(name, TapXY.arguments)) : name \in { "click", "press", "batch_commands" } }

FlowRunRequests ==
  { Flow(<<s, PlainStep(TapXY)>>, Absent) : s \in ProbeSteps \cup CapSteps }
    \cup { Flow(<<PlainStep(TapXY), s>>, Absent) : s \in AliasSteps }

FlowRunInit ==
  /\ toolMap = [n \in { "tap", "swipe", "wait_for_element", "assert_visible",
                          "batch_commands", "run_flow" } |-> ToolDef(n, n)]
  /\ aliasMap = [n \in {} |-> ""]
  /\ activePlatform \in Platforms
  /\ ui \in SUBSET Texts
  /\ elementCache = [p \in Targets |-> {}]
  /\ lastScreenshot = [p \in Targets |-> NoBuffer]
  /\ now = 0
  /\ phase = "idle"
  /\ request = UnknownCmd
  /\ stack = << >>
  /\ ret = NoRet
  /\ response = [kind |-> "none", text |-> "", isError |-> FALSE]
  /\ lastDispatch = [name |-> "", depth |-> 0, out |-> "none"]
  /\ recursionHit = FALSE
  /\ self = 1
  /\ parked = NoCall

FlowRunAliases ==
  /\ phase = "idle"
  /\ \E aliases \in FlowAliasBatches : registerAliases(aliases)
  /\ UNCHANGED <<toolMap, deviceVars, self, parked, lastScreenshot, now, phase, request, stack, ret,
                 response,
                 ghostVars>>

FlowRunNext ==
  \/ FlowRunAliases
  \/ Serve(FlowRunRequests)
  \/ Respond
  \/ Tap
  \/ Swipe
  \/ WaitForElement
  \/ AssertVisible
  \/ FlowStart
  \/ FlowStep
  \/ FlowDispatch
  \/ FlowLoopExit
  \/ FlowAwait
  \/ FlowCapture
  \/ FlowCond
  \/ FlowSwipeAwait
  \/ FlowRetryAwait
  \/ FlowEndStep

FlowRunSpec == FlowRunInit /\ [][FlowRunNext]_vars

(* ------------------------------------------------------------------ *)
(* Two tool calls in flight                                           *)
(* ------------------------------------------------------------------ *)

\* a tap inside k nested batch_commands
RECURSIVE Chain(_)
Chain(k) == IF k = 0 THEN TapXY ELSE Batch(<<Chain(k - 1)>>, Undefined)

\* a shallow batch, the deepest chain that runs, a chain that hits the depth
\* limit, and a screenshot in diff mode
ConcurrentRequests ==
  { Chain(1), Chain(MAX_RECURSION_DEPTH), Chain(MAX_RECURSION_DEPTH + 2),
    Screenshot("true", Undefined, Undefined) }

ConcurrentInit ==
  /\ toolMap = [n \in { "tap", "batch_commands", "screenshot" } |-> ToolDef(n, n)]
  /\ aliasMap = [n \in {} |-> ""]
  /\ activePlatform \in Platforms
  /\ ui \in SUBSET Texts
  /\ elementCache = [p \in Targets |-> {}]
  /\ lastScreenshot = [p \in Targets |-> NoBuffer]
  /\ now = 0
  /\ phase = "idle"
  /\ request = UnknownCmd
  /\ stack = << >>
  /\ ret = NoRet
  /\ response = [kind |-> "none", text |-> "", isError |-> FALSE]
  /\ lastDispatch = [name |-> "", depth |-> 0, out |-> "none"]
  /\ recursionHit = FALSE
  /\ self = 1
  /\ parked = NoCall

\* the running call is suspended at an await (or has been answered) and the
\* event loop goes on with the other call: a request not yet received, or a
\* call whose awaited result has arrived
Switch ==
  /\ phase \in { "running", "done" }
  /\ parked' = [ phase |-> phase, request |-> request, stack |-> stack, ret |-> ret,
                 response |-> response, recursionHit |-> recursionHit ]
  /\ phase' = parked.phase
  /\ request' = parked.request
  /\ stack' = parked.stack
  /\ ret' = parked.ret
  /\ response' = parked.response
  /\ recursionHit' = parked.recursionHit
  /\ self' = 3 - self
  /\ UNCHANGED <<registryVars, deviceVars, lastScreenshot, now, lastDispatch>>

ConcurrentNext ==
  \/ Serve(ConcurrentRequests)
  \/ Switch
  \/ Respond
  \/ Tap
  \/ BatchStart
  \/ BatchDispatch
  \/ BatchAwait
  \/ BatchFinish
  \/ ScreenshotCapture
  \/ ScreenshotStore
  \/ ScreenshotFinish

ConcurrentSpec == ConcurrentInit /\ [][ConcurrentNext]_vars

(* ------------------------------------------------------------------ *)
(* Vocabulary of the properties                                       *)
(* ------------------------------------------------------------------ *)
FlowFrames == { k \in 1..Len(stack) : stack[k].tool = "run_flow" }

\* this step contains a handleTool call: the request handler's, or one made by
\* the activation that is on top of the stack
Dispatched ==
  \/ phase = "idle" /\ phase' = "running"
  \/ /\ Len(stack) > 0
     /\ Len(stack') >= Len(stack)
     /\ stack'[Len(stack)].nd = Top.nd + 1

\* that call threw the recursion-limit error and no handler was started
FailedOnDepth ==
  /\ ret' = Err(MkError("Error", RecursionMessage))
  /\ Len(stack') = Len(stack)
  /\ lastDispatch'.out = "recursion"

\* the step is written with on_error "stop" or without on_error
StopPolicy(step) == step.on_error \in { Undefined, "stop" }

\* the not-found fallback of the step applies to the error message
FallbackApplies(step, message) ==
  /\ step.if_not_found # Undefined
  /\ Includes(message, "not found") \/ Includes(message, "No element")

\* the top activation is a flow that returns its report in this step
FlowReports ==
  /\ Len(stack) > 0
  /\ Top.tool = "run_flow"
  /\ Top.pc # "start"
  /\ stack' = Below
  /\ ret'.kind = "ok"

(* ------------------------------------------------------------------ *)
(* C1                                                                 *)
(* ------------------------------------------------------------------ *)
\* C1 as stated: every handleTool call made with depth equal to
\* MAX_RECURSION_DEPTH fails with the recursion-limit error and starts no
\* handler.
C1_FailsAtLimit ==
  [][Dispatched /\ lastDispatch'.depth = MAX_RECURSION_DEPTH => FailedOnDepth]_vars

\* C1 amended: a handleTool call fails with the recursion-limit error, starting
\* no handler, exactly when its depth is greater than MAX_RECURSION_DEPTH; a
\* call at depth equal to the maximum goes on to the handler lookup.
C1_FailsAboveLimit ==
  [][Dispatched =>
       /\ lastDispatch'.depth > MAX_RECURSION_DEPTH => FailedOnDepth
       /\ lastDispatch'.depth <= MAX_RECURSION_DEPTH =>
            /\ lastDispatch'.out \in { "invoked", "unknown" }
            /\ ret'.text # RecursionMessage
            /\ lastDispatch'.out = "invoked" =>
                 /\ Len(stack') = Len(stack) + 1
                 /\ stack'[Len(stack')].depth = lastDispatch'.depth]_vars

\* a call one level past the maximum has been refused, and one at the maximum
\* has started a handler
C1_Witness ==
  /\ lastDispatch.depth = MAX_RECURSION_DEPTH + 1
  /\ lastDispatch.out = "recursion"
  /\ ret = Err(MkError("Error", RecursionMessage))
  /\ Len(stack) = MAX_RECURSION_DEPTH + 1
  /\ Top.depth = MAX_RECURSION_DEPTH

(* ------------------------------------------------------------------ *)
(* C2                                                                 *)
(* ------------------------------------------------------------------ *)
\* C2: no handler ever runs with a depth greater than MAX_RECURSION_DEPTH; the
\* k-th activation of a call chain runs at depth k - 1, so a chain holds at most
\* MAX_RECURSION_DEPTH + 1 activations however deep the request is nested.
C2_DepthBounded ==
  /\ Len(stack) <= MAX_RECURSION_DEPTH + 1
  /\ \A k \in 1..Len(stack) :
       /\ stack[k].depth = k - 1
       /\ stack[k].depth <= MAX_RECURSION_DEPTH

\* a request nested deeper than the maximum: the chain is full and the next
\* level, a composite, was refused
C2_Witness ==
  /\ Len(stack) = MAX_RECURSION_DEPTH + 1
  /\ \A k \in 1..Len(stack) : stack[k].tool = "batch_commands"
  /\ lastDispatch.name \in { "batch_commands", "run_flow" }
  /\ lastDispatch.depth > MAX_RECURSION_DEPTH
  /\ lastDispatch.out = "recursion"

(* ------------------------------------------------------------------ *)
(* C3                                                                 *)
(* ------------------------------------------------------------------ *)
\* C3 as stated: once a nested dispatch has failed with the recursion-limit
\* error, the top-level call ends as a failure.
C3_RecursionFatal ==
  recursionHit /\ phase = "done" => response.isError

(* ------------------------------------------------------------------ *)
(* C4                                                                 *)
(* ------------------------------------------------------------------ *)
\* some step's action is outside the allow-list
HasDisallowed(steps) ==
  \E k \in 1..Len(steps) : steps[k].action \notin FLOW_ALLOWED_ACTIONS

\* C4: a run_flow activation whose flow holds a disallowed action never gets
\* past its entry: it makes no dispatch and no capture, and its entry step
\* returns a text answer and leaves device, caches and clock alone.
C4_DisallowedRejected ==
  /\ [](\A k \in FlowFrames :
          HasDisallowed(stack[k].args.steps) =>
            /\ k = Len(stack)
            /\ stack[k].pc = "start"
            /\ stack[k].nd = 0
            /\ stack[k].nc = 0)
  /\ [][Running("run_flow", "start") /\ HasDisallowed(Top.args.steps) =>
          /\ stack' = Below
          /\ ret'.kind = "ok"
          /\ ret'.lines = << >>
          /\ UNCHANGED <<deviceVars, now, lastDispatch>>]_vars

\* a flow whose second step is disallowed was rejected: the allowed first step
\* was not dispatched
C4_Witness ==
  /\ request.name = "run_flow"
  /\ Len(request.arguments.steps) = 2
  /\ request.arguments.steps[1].action = "tap"
  /\ request.arguments.steps[2].action = "batch_commands"
  /\ ret = Ok(NotAllowedText("batch_commands"))
  /\ lastDispatch.name = "run_flow"
  /\ stack = << >>

(* ------------------------------------------------------------------ *)
(* C5                                                                 *)
(* ------------------------------------------------------------------ *)
\* C5: a run_flow activation with more than FLOW_MAX_STEPS steps never gets
\* past its entry: no dispatch, no capture, and its entry step answers with a
\* text and leaves device, caches and clock alone.
C5_TooManyRejected ==
  /\ [](\A k \in FlowFrames :
          Len(stack[k].args.steps) > FLOW_MAX_STEPS =>
            /\ k = Len(stack)
            /\ stack[k].pc = "start"
            /\ stack[k].nd = 0
            /\ stack[k].nc = 0)
  /\ [][Running("run_flow", "start") /\ Len(Top.args.steps) > FLOW_MAX_STEPS =>
          /\ stack' = Below
          /\ ret' = Ok(TooManyText(Len(Top.args.steps)))
          /\ UNCHANGED <<deviceVars, now, lastDispatch>>]_vars

\* a flow of FLOW_MAX_STEPS + 1 allowed steps was rejected
C5_Witness ==
  /\ request.name = "run_flow"
  /\ Len(request.arguments.steps) = FLOW_MAX_STEPS + 1
  /\ ~HasDisallowed(request.arguments.steps)
  /\ ret = Ok(TooManyText(FLOW_MAX_STEPS + 1))
  /\ lastDispatch.name = "run_flow"
  /\ elementCache = [p \in Targets |-> {}]
  /\ now = 0

(* ------------------------------------------------------------------ *)
(* C6                                                                 *)
(* ------------------------------------------------------------------ *)
\* the flow resumes from the dispatch of a tap{text} step with if_not_found
\* "skip" whose handler found no element with that text
TapMissedWithSkip ==
  /\ Running("run_flow", "await")
  /\ LET step == Top.args.steps[Top.i] IN
     /\ step.action = "tap"
     /\ step.args.text # ""
     /\ step.if_not_found = "skip"
     /\ ret = Ok("Element not found: " \o step.args.text)

\* C6 as stated: such a step is recorded as a success whose message says that
\* the step was skipped, and the flow goes on.
C6_MissingElementSkipped ==
  [][TapMissedWithSkip =>
       /\ Len(stack') >= Len(stack)
       /\ stack'[Len(stack)].last.success
       /\ stack'[Len(stack)].last.message = SkippedText]_vars

(* ------------------------------------------------------------------ *)
(* C7                                                                 *)
(* ------------------------------------------------------------------ *)
Scrolls == { "scroll_down", "scroll_up" }

\* C7 as stated: a step that took the scroll fallback has had exactly one swipe
\* and exactly one re-dispatch by the time its result is recorded.
C7_SwipeThenRetry ==
  \A k \in FlowFrames :
    stack[k].pc = "endstep" /\ stack[k].sw > 0 =>
      stack[k].sw = 1 /\ stack[k].re = 1

\* C7 amended: when a step fails with a not-found message and if_not_found is
\* scroll_down or scroll_up, the flow dispatches exactly one swipe.  If the
\* swipe succeeds the original step is dispatched again exactly once and the
\* recorded result is the outcome of that dispatch; if the swipe fails the step
\* is not dispatched again and is recorded as failed with the swipe's error.
\* Either way the step is over: the next thing the flow does is append the
\* result.
C7_SwipeThenRetryIfSwiped ==
  /\ [](\A k \in FlowFrames :
          /\ stack[k].sw <= 1
          /\ stack[k].re <= stack[k].sw
          /\ stack[k].pc \in { "swipe_await", "retry_await" } => stack[k].sw = 1
          /\ stack[k].pc = "retry_await" => stack[k].re = 1)
  /\ [][/\ ( /\ Running("run_flow", "await")
             /\ ret.kind = "err"
             /\ FallbackApplies(Top.args.steps[Top.i], ret.text)
             /\ Top.args.steps[Top.i].if_not_found \in Scrolls )
          => /\ Top.sw = 0
             /\ stack'[Len(stack)].sw = 1
             /\ stack'[Len(stack)].re = 0
             /\ stack'[Len(stack)].pc = "swipe_await"
             /\ lastDispatch'.name = "swipe"
             /\ lastDispatch'.depth = Top.depth + 1
        /\ ( Running("run_flow", "swipe_await") /\ ret.kind = "ok" )
          => /\ stack'[Len(stack)].re = 1
             /\ stack'[Len(stack)].sw = 1
             /\ stack'[Len(stack)].pc = "retry_await"
             /\ stack'[Len(stack)].nd = Top.nd + 1
             /\ lastDispatch'.name = Top.args.steps[Top.i].action
        /\ ( Running("run_flow", "swipe_await") /\ ret.kind = "err" )
          => /\ stack' = [stack EXCEPT
                            ![Len(stack)].pc = "endstep",
                            ![Len(stack)].last =
                               [ step |-> Top.i, action |-> Top.args.steps[Top.i].action,
                                 success |-> FALSE,
                                 message |-> ret.text \o " (after "
                                               \o Top.args.steps[Top.i].if_not_found \o ")" ]]
             /\ lastDispatch' = lastDispatch
        /\ ( Running("run_flow", "retry_await") /\ ret.kind # "none" )
          => /\ stack'[Len(stack)].pc = "endstep"
             /\ stack'[Len(stack)].nd = Top.nd
             /\ stack'[Len(stack)].last.step = Top.i
             /\ stack'[Len(stack)].last.success = (ret.kind = "ok")
             /\ Includes(stack'[Len(stack)].last.message, Slice(ret.text, RETRY_SLICE))
        /\ ( Running("run_flow", "endstep") /\ Top.sw = 1 )
          => \/ stack' = Below /\ ret'.lines = Append(Top.results, Top.last)
             \/ stack' = [stack EXCEPT ![Len(stack)].results = Append(@, Top.last),
                                       ![Len(stack)].i = @ + 1,
                                       ![Len(stack)].pc = "step"]
       ]_vars

\* a step went through the swipe and the second dispatch, which succeeded
C7_Witness ==
  /\ Len(stack) > 0
  /\ Top.tool = "run_flow"
  /\ Top.pc = "endstep"
  /\ Top.sw = 1
  /\ Top.re = 1
  /\ Top.last.success
  /\ Top.args.steps[Top.i].if_not_found \in Scrolls

(* ------------------------------------------------------------------ *)
(* C8                                                                 *)
(* ------------------------------------------------------------------ *)
\* C8: a failed result of a step with on_error "stop" ends the flow at once.  No
\* flow keeps running with such an entry among its results; once such a result
\* is the step's outcome the flow's next move is to return; and the report a
\* flow returns is its earlier results plus at most one entry, where a failed
\* entry of a "stop" step is the last entry and the only one for its step.
C8_StopReturnsReport ==
  /\ [](\A k \in FlowFrames :
          LET f == stack[k] IN
          /\ \A j \in 1..Len(f.results) :
               ~f.results[j].success => ~StopPolicy(f.args.steps[f.results[j].step])
          /\ ( /\ f.pc \notin { "start", "step" }
               /\ f.last # NoResult
               /\ ~f.last.success
               /\ StopPolicy(f.args.steps[f.i]) ) => f.pc = "endstep")
  /\ [][/\ ( /\ Running("run_flow", "endstep")
             /\ Top.last # NoResult
             /\ ~Top.last.success
             /\ StopPolicy(Top.args.steps[Top.i]) )
          => /\ stack' = Below
             /\ ret' = Report(FlowCompleted, Append(Top.results, Top.last))
             /\ lastDispatch' = lastDispatch
        /\ FlowReports
          => LET lines == ret'.lines
                 steps == Top.args.steps
             IN
             /\ Len(lines) \in { Len(Top.results), Len(Top.results) + 1 }
             /\ SubSeq(lines, 1, Len(Top.results)) = Top.results
             /\ lastDispatch' = lastDispatch
             /\ \A j \in 1..Len(lines) :
                  ~lines[j].success /\ StopPolicy(steps[lines[j].step]) =>
                    /\ j = Len(lines)
                    /\ \A m \in 1..Len(lines) : m # j => lines[m].step # lines[j].step
       ]_vars

\* a flow returned after its second step failed: one earlier result, then the
\* failure
C8_Witness ==
  /\ request.name = "run_flow"
  /\ stack = << >>
  /\ ret.kind = "ok"
  /\ ret.text = FlowCompleted
  /\ Len(ret.lines) = 2
  /\ ret.lines[1].step = 1
  /\ ret.lines[1].success
  /\ ret.lines[2].step = 2
  /\ ~ret.lines[2].success
  /\ StopPolicy(request.arguments.steps[2])
  /\ Len(request.arguments.steps) > 2

(* ------------------------------------------------------------------ *)
(* C9                                                                 *)
(* ------------------------------------------------------------------ *)
\* C9 as stated: a step with on_error "retry" is recorded as a final failure
\* only after it has been attempted again at least once, repeat spec or not.
C9_RetryReattempts ==
  \A k \in FlowFrames :
    LET f == stack[k] IN
    ( /\ f.pc = "endstep"
      /\ f.args.steps[f.i].on_error = "retry"
      /\ f.args.steps[f.i].if_not_found = Undefined
      /\ f.last # NoResult
      /\ ~f.last.success ) => f.iter >= 1

(* ------------------------------------------------------------------ *)
(* C10                                                                *)
(* ------------------------------------------------------------------ *)
\* C10 as stated: a device-unavailable error delivered to a flow, from a
\* step's dispatch or from the capture of a repeat-until loop, unwinds the flow:
\* the handler ends with that error, makes no dispatch and no capture.
C10_DeviceUnavailableUnwinds ==
  [][( /\ \/ Running("run_flow", "await")
          \/ Running("run_flow", "cond")
       /\ ret.kind = "err"
       /\ ret.cls \in DeviceUnavailableClasses )
     => /\ stack' = Below
        /\ ret' = ret]_vars

(* ------------------------------------------------------------------ *)
(* C11                                                                *)
(* ------------------------------------------------------------------ *)
\* the elapsed time of the flow is over its budget,
\* min(maxDuration or DEFAULT_MAX_DURATION, FLOW_MAX_DURATION)
OverBudget(f) ==
  LET requested == IF f.args.maxDuration = Absent
                     THEN DEFAULT_MAX_DURATION ELSE f.args.maxDuration
      budget == IF requested <= FLOW_MAX_DURATION THEN requested ELSE FLOW_MAX_DURATION
  IN now - f.flowStart > budget

\* the flow on top of the stack is at one of its two budget checks, before a
\* step or before an iteration
AtBudgetCheck ==
  \/ Running("run_flow", "step") /\ Top.i <= Len(Top.args.steps)
  \/ /\ Running("run_flow", "iter")
     /\ Top.iter < (IF Top.args.steps[Top.i].repeat.until_found # ""
                        \/ Top.args.steps[Top.i].repeat.until_not_found # ""
                       THEN FLOW_MAX_REPEAT
                     ELSE IF Top.args.steps[Top.i].repeat.times = 0 THEN 1
                     ELSE IF Top.args.steps[Top.i].repeat.times <= FLOW_MAX_REPEAT
                       THEN Top.args.steps[Top.i].repeat.times
                     ELSE FLOW_MAX_REPEAT)

\* the last entry of a report is the synthetic timeout entry
EndsWithTimeout(lines) ==
  /\ Len(lines) > 0
  /\ ~lines[Len(lines)].success
  /\ Includes(lines[Len(lines)].message, "Flow timeout (")

\* C11 as stated: a budget check that finds the budget spent makes no dispatch,
\* no dispatch of the flow follows it, and the report the flow returns ends
\* with the synthetic failed timeout entry.
C11_TimeoutTruncates ==
  [][/\ AtBudgetCheck /\ OverBudget(Top)
          => /\ lastDispatch' = lastDispatch
             /\ Len(stack') <= Len(stack)
             /\ Len(stack') = Len(stack) => stack'[Len(stack)].nd = Top.nd
     /\ ( /\ Len(stack) > 0
          /\ Top.tool = "run_flow"
          /\ Top.exceeded )
          => /\ Len(stack') <= Len(stack)
             /\ Len(stack') = Len(stack) => stack'[Len(stack)].nd = Top.nd
     /\ ( /\ FlowReports
          /\ Top.exceeded \/ (AtBudgetCheck /\ OverBudget(Top)) )
          => EndsWithTimeout(ret'.lines)
    ]_vars

(* ------------------------------------------------------------------ *)
(* C12                                                                *)
(* ------------------------------------------------------------------ *)
\* the step the activation is at repeats until an element appears
UntilFound(f) ==
  /\ f.pc \notin { "start", "step" }
  /\ f.args.steps[f.i].repeat.until_found # ""

\* some captured element matches the text
Matches(elements, text) ==
  \E e \in elements : Includes(ToLower(e), ToLower(text))

\* C12: a step with repeat.until_found = X captures the hierarchy afresh after
\* every successful iteration and leaves the loop at the first capture that
\* holds an element matching X, making no further dispatch for the step; and
\* whatever the captures show, the step runs at most FLOW_MAX_REPEAT
\* iterations.
C12_UntilFoundStops ==
  /\ [](\A k \in FlowFrames :
          LET f == stack[k] IN
          UntilFound(f) =>
            /\ f.iter <= FLOW_MAX_REPEAT
            /\ f.pc \in { "await", "capture", "cond", "swipe_await", "retry_await" }
                 => f.iter < FLOW_MAX_REPEAT
            /\ f.i = 1 => /\ f.nd - f.sw - f.re <= FLOW_MAX_REPEAT
                          /\ f.nc <= FLOW_MAX_REPEAT)
  /\ [][/\ ( /\ Running("run_flow", "await")
             /\ UntilFound(Top)
             /\ ret.kind = "ok" )
          => /\ stack'[Len(stack)].pc = "capture"
             /\ stack'[Len(stack)].iter = Top.iter
             /\ lastDispatch' = lastDispatch
        /\ ( Running("run_flow", "capture") /\ ret'.kind = "ok" )
          => /\ ret'.elements = ui
             /\ stack'[Len(stack)].nc = Top.nc + 1
        /\ ( /\ Running("run_flow", "cond")
             /\ UntilFound(Top)
             /\ ret.kind = "ok"
             /\ Matches(ret.elements, Top.args.steps[Top.i].repeat.until_found) )
          => /\ stack' = [stack EXCEPT ![Len(stack)].pc = "endstep"]
             /\ lastDispatch' = lastDispatch
        /\ ( Running("run_flow", "endstep") /\ UntilFound(Top) )
          => /\ lastDispatch' = lastDispatch
             /\ \/ stack' = Below
                \/ /\ stack'[Len(stack)].i = Top.i + 1
                   /\ stack'[Len(stack)].pc = "step"
       ]_vars

\* the second iteration's capture showed the element and the loop was left
C12_Witness ==
  /\ Len(stack) > 0
  /\ Top.tool = "run_flow"
  /\ Top.pc = "endstep"
  /\ Top.args.steps[Top.i].repeat.until_found = "submit"
  /\ Top.iter = 1
  /\ Top.nc = 2
  /\ Top.nd = 2
  /\ ~Top.exceeded
  /\ Top.last.success
  /\ "Submit" \in elementCache[CurrentPlatform(Top.args)]

(* ------------------------------------------------------------------ *)
(* C13                                                                *)
(* ------------------------------------------------------------------ *)
\* the step asks for repetition, by count or by condition
UsesRepeat(step) ==
  \/ step.repeat.times # 0
  \/ step.repeat.until_found # ""
  \/ step.repeat.until_not_found # ""

\* the ceilings of the claim for a list of steps: its length times the larger
\* of the repeat cap and 1, and FLOW_MAX_STEPS when no step repeats
EntriesWithin(n, steps) ==
  /\ n <= Len(steps) * (IF FLOW_MAX_REPEAT >= 1 THEN FLOW_MAX_REPEAT ELSE 1)
  /\ (\A j \in 1..Len(steps) : ~UsesRepeat(steps[j])) => n <= FLOW_MAX_STEPS

\* C13: a flow that passed validation never holds more result entries than
\* steps.length * max(FLOW_MAX_REPEAT, 1), nor more than FLOW_MAX_STEPS when no
\* step uses repeat; the same holds of the report it returns.
C13_EntriesBounded ==
  /\ [](\A k \in FlowFrames :
          stack[k].pc # "start" =>
            EntriesWithin(Len(stack[k].results), stack[k].args.steps))
  /\ [][FlowReports => EntriesWithin(Len(ret'.lines), Top.args.steps)]_vars

\* a flow of FLOW_MAX_STEPS plain steps returned a report with one entry for
\* every step
C13_Witness ==
  /\ request.name = "run_flow"
  /\ Len(request.arguments.steps) = FLOW_MAX_STEPS
  /\ \A j \in 1..FLOW_MAX_STEPS : ~UsesRepeat(request.arguments.steps[j])
  /\ stack = << >>
  /\ ret.kind = "ok"
  /\ Len(ret.lines) = FLOW_MAX_STEPS
  /\ \A j \in 1..FLOW_MAX_STEPS : ret.lines[j].step = j

(* ------------------------------------------------------------------ *)
(* C14                                                                *)
(* ------------------------------------------------------------------ *)
BatchFrames == { k \in 1..Len(stack) : stack[k].tool = "batch_commands" }

\* the entries are those of the first Len(results) commands, in list order
InListOrder(f) ==
  /\ Len(f.results) <= Len(f.args.commands)
  /\ \A j \in 1..Len(f.results) : f.results[j].command = f.args.commands[j].name

\* every command with an entry was dispatched once, and at most the next one
\* is being awaited
OnceEach(f) == f.nd = (IF f.pc = "await" THEN Len(f.results) + 1 ELSE Len(f.results))

\* the batch on top of the stack dispatches its next command in this step
BatchDispatches ==
  /\ Len(stack) > 0
  /\ Top.tool = "batch_commands"
  /\ Len(stack') >= Len(stack)
  /\ stack'[Len(stack)].nd = Top.nd + 1

\* the batch on top of the stack returns its report in this step
BatchReports ==
  /\ Len(stack) > 0
  /\ Top.tool = "batch_commands"
  /\ Top.pc # "start"
  /\ stack' = Below

\* C14: with stopOnError true or absent, batch_commands dispatches its commands
\* in list order, one at a time, one level deeper; the first dispatch that
\* fails is recorded and ends the loop, so that no later command is
\* dispatched; the report holds the entries of exactly the dispatched
\* commands, all successes but for the failure, which comes last.
C14_StopsAtFirstFailure ==
  /\ [](\A k \in BatchFrames :
          LET f == stack[k] IN
          f.args.stopOnError \in { Undefined, "true" } =>
            /\ InListOrder(f)
            /\ OnceEach(f)
            /\ \A j \in 1..(Len(f.results) - 1) : f.results[j].success
            /\ ( Len(f.results) > 0 /\ ~f.results[Len(f.results)].success )
                 => f.pc = "break")
  /\ [][/\ ( BatchDispatches /\ Top.args.stopOnError \in { Undefined, "true" } )
          => /\ Top.pc = "loop"
             /\ Top.nd = Len(Top.results)
             /\ lastDispatch'.name = Top.args.commands[Top.nd + 1].name
             /\ lastDispatch'.depth = Top.depth + 1
        /\ ( /\ Running("batch_commands", "await")
             /\ Top.args.stopOnError \in { Undefined, "true" }
             /\ ret.kind = "err" )
          => /\ stack' = [stack EXCEPT
                            ![Len(stack)].pc = "break",
                            ![Len(stack)].results =
                               Append(@, [ command |-> Top.args.commands[Top.i].name,
                                           success |-> FALSE,
                                           result |-> ret.text ])]
             /\ lastDispatch' = lastDispatch
        /\ ( BatchReports /\ Top.args.stopOnError \in { Undefined, "true" } )
          => /\ ret'.kind = "ok"
             /\ ret'.lines = Top.results
             /\ lastDispatch' = lastDispatch
             /\ \/ Len(Top.results) = Len(Top.args.commands)
                \/ ~Top.results[Len(Top.results)].success
       ]_vars

\* [tap, unknown tool, tap] without stopOnError: two entries, the failure last
C14_Witness ==
  /\ request.name = "batch_commands"
  /\ request.arguments.stopOnError = Undefined
  /\ Len(request.arguments.commands) = 3
  /\ stack = << >>
  /\ ret.text = "Batch: 2/3 executed, 1 failed"
  /\ Len(ret.lines) = 2
  /\ ret.lines[1].success
  /\ ~ret.lines[2].success
  /\ ret.lines[2].command = "no_such_tool"
  /\ lastDispatch.name = "no_such_tool"

(* ------------------------------------------------------------------ *)
(* C15                                                                *)
(* ------------------------------------------------------------------ *)
\* the summary line for `n` entries of `m` commands with `failed` failures
SummaryLine(n, m, failed) ==
  IF failed > 0
    THEN "Batch: " \o ToString(n) \o "/" \o ToString(m) \o " executed, "
           \o ToString(failed) \o " failed"
    ELSE "Batch: " \o ToString(n) \o " commands OK"

\* C15: with stopOnError false, batch_commands dispatches every command once,
\* in list order, whatever fails; every dispatch is recorded as it ended, a
\* failure for a dispatch that threw and a success otherwise; and the report
\* counts as failed exactly the dispatches that threw.
C15_ContinuesPastFailures ==
  /\ [](\A k \in BatchFrames :
          LET f == stack[k] IN
          f.args.stopOnError = "false" =>
            /\ InListOrder(f)
            /\ OnceEach(f)
            /\ f.pc # "break")
  /\ [][/\ ( BatchDispatches /\ Top.args.stopOnError = "false" )
          => /\ Top.nd = Len(Top.results)
             /\ lastDispatch'.name = Top.args.commands[Top.nd + 1].name
        /\ ( /\ Running("batch_commands", "await")
             /\ Top.args.stopOnError = "false"
             /\ ret.kind # "none" )
          => stack' = [stack EXCEPT
                         ![Len(stack)].pc = "loop",
                         ![Len(stack)].i = @ + 1,
                         ![Len(stack)].results =
                            Append(@, [ command |-> Top.args.commands[Top.i].name,
                                        success |-> (ret.kind = "ok"),
                                        result |-> ret.text ])]
        /\ ( BatchReports /\ Top.args.stopOnError = "false" )
          => LET lines == Top.results
                 threw == { j \in 1..Len(lines) : ~lines[j].success }
             IN
             /\ Len(lines) = Len(Top.args.commands)
             /\ Top.nd = Len(Top.args.commands)
             /\ ret'.lines = lines
             /\ ret'.text = SummaryLine(Len(lines), Len(Top.args.commands),
                                        Cardinality(threw))
       ]_vars

\* [tap, unknown tool, tap] with stopOnError false: three entries, one failure
C15_Witness ==
  /\ request.name = "batch_commands"
  /\ request.arguments.stopOnError = "false"
  /\ Len(request.arguments.commands) = 3
  /\ stack = << >>
  /\ ret.text = "Batch: 3/3 executed, 1 failed"
  /\ Len(ret.lines) = 3
  /\ ret.lines[1].success
  /\ ~ret.lines[2].success
  /\ ret.lines[3].success

(* ------------------------------------------------------------------ *)
(* C16                                                                *)
(* ------------------------------------------------------------------ *)
\* the unknown-tool error of handleTool
UnknownTool(name) ==
  [NoRet EXCEPT !.kind = "err", !.cls = "Error", !.text = "Unknown tool: " \o name]

\* C16: a call of a canonical name starts that definition's handler, alias of
\* the same name or not; a call of a name that is only an alias, of a
\* registered canonical name, starts the handler a call of the canonical name
\* starts; a call of any other name fails with the unknown-tool error and
\* starts no handler.
C16_CanonicalThenAlias ==
  [][phase = "idle" /\ phase' = "running" =>
       LET name == request'.name
           canonical == DOMAIN toolMap
           started(h) == /\ Len(stack') = 1
                         /\ stack'[1].tool = h
                         /\ stack'[1].args = request'.arguments
                         /\ ret' = NoRet
       IN
       /\ lastDispatch'.name = name
       /\ name \in canonical => started(toolMap[name].handler)
       /\ ( /\ name \notin canonical
            /\ name \in DOMAIN aliasMap
            /\ aliasMap[name] \in canonical )
            => started(toolMap[aliasMap[name]].handler)
       /\ ( /\ name \notin canonical
            /\ name \in DOMAIN aliasMap => aliasMap[name] \notin canonical )
            => /\ stack' = << >>
               /\ ret' = UnknownTool(name)
               /\ lastDispatch'.out = "unknown"
    ]_vars

\* "click" is only an alias, of the registered "tap": the call of "click" runs
\* the tap handler
C16_Witness ==
  /\ request.name = "click"
  /\ "click" \notin DOMAIN toolMap
  /\ "click" \in DOMAIN aliasMap
  /\ aliasMap["click"] = "tap"
  /\ "tap" \in DOMAIN toolMap
  /\ toolMap["tap"].handler = "tap"
  /\ Len(stack) = 1
  /\ stack[1].tool = "tap"
  /\ stack[1].pc = "start"

(* ------------------------------------------------------------------ *)
(* C17                                                                *)
(* ------------------------------------------------------------------ *)
\* C17: whatever has been registered, the tool list holds the canonical names
\* and nothing else: no name that is only an alias is in it, registering
\* aliases leaves the list as it is, and registering tools only adds to it.
C17_ListsCanonicalOnly ==
  /\ [](/\ getTools = DOMAIN toolMap
        /\ \A a \in DOMAIN aliasMap : a \notin DOMAIN toolMap => a \notin getTools)
  /\ [][/\ aliasMap' # aliasMap => getTools' = getTools
        /\ toolMap' # toolMap => getTools \subseteq getTools']_vars

\* "click" is registered as an alias of the listed "tap" and is not listed
C17_Witness ==
  /\ "click" \in DOMAIN aliasMap
  /\ "click" \notin DOMAIN toolMap
  /\ "tap" \in getTools
  /\ "click" \notin getTools
  /\ "scroll" \in DOMAIN aliasMap
  /\ "scroll" \notin getTools

(* ------------------------------------------------------------------ *)
(* C18                                                                *)
(* ------------------------------------------------------------------ *)
\* the request handler answers in this step
Answers == phase = "running" /\ phase' = "done"

\* the call being answered failed: its dispatch chain threw, or the report it
\* returns holds a failed entry
CallFailed ==
  \/ ret.kind = "err"
  \/ \E j \in 1..Len(ret.lines) : ~ret.lines[j].success

\* C18 as stated: every request is answered with a text or an image; an error thrown by the
\* dispatch chain is answered with "Error: <message>" and the error flag; and
\* every failure of the call is answered with the error flag.
C18_FailuresFlagged ==
  [][Answers =>
       /\ response'.kind \in { "text", "image" }
       /\ ret.kind = "err" =>
            response' = [kind |-> "text", text |-> "Error: " \o ret.text, isError |-> TRUE]
       /\ CallFailed => response'.isError
    ]_vars

(* ------------------------------------------------------------------ *)
(* C19                                                                *)
(* ------------------------------------------------------------------ *)
HintTools == { "tap", "swipe", "input_text", "press_key" }

\* the message of the completed primary action of an activation
IsPrimaryMessage(f, m) ==
  CASE f.tool = "tap" -> Includes(m, "Tapped at (") /\ SubSeq(m, 1, 11) = "Tapped at ("
    [] f.tool = "swipe" -> m = "Swiped " \o f.args.direction
    [] f.tool = "input_text" -> m = "Entered text: \"" \o f.args.text \o "\""
    [] f.tool = "press_key" -> m = "Pressed key: " \o f.args.key
    [] OTHER -> FALSE

\* C19: an activation of tap, swipe, input_text or press_key with hints true
\* whose backend action has succeeded holds the action's message; whatever the
\* re-capture for the hints does, the handler returns a success whose text
\* starts with that message, and a failed re-capture adds the note and touches
\* neither the screen nor the cache.
C19_HintsNeverFail ==
  /\ [](\A k \in 1..Len(stack) :
          stack[k].pc = "hints" =>
            /\ k = Len(stack)
            /\ stack[k].tool \in HintTools
            /\ stack[k].args.hints = "true"
            /\ IsPrimaryMessage(stack[k], stack[k].result))
  /\ [][( /\ phase = "running"
          /\ Len(stack) > 0
          /\ Top.pc = "hints" )
        => /\ stack' = Below
           /\ ret'.kind = "ok"
           /\ Len(ret'.text) > Len(Top.result)
           /\ SubSeq(ret'.text, 1, Len(Top.result)) = Top.result
           /\ Includes(ret'.text, "--- Hints ---")
           /\ Includes(ret'.text, "Unable to fetch UI state for hints: ")
                => UNCHANGED <<ui, elementCache>>
       ]_vars

\* input_text with hints: the text was entered, the re-capture failed, and the
\* answer is the message followed by the note
C19_Witness ==
  /\ request.name = "input_text"
  /\ request.arguments.hints = "true"
  /\ stack = << >>
  /\ ret.kind = "ok"
  /\ ret.text = "Entered text: \"hello\"\n--- Hints ---\nUnable to fetch UI state for hints: Device is offline"

(* ------------------------------------------------------------------ *)
(* C20                                                                *)
(* ------------------------------------------------------------------ *)
Composite(f) == f.tool \in { "batch_commands", "run_flow" }

\* the positions at which a composite waits for a dispatch it has made
AwaitPcs == { "await", "swipe_await", "retry_await" }

\* C20: a batch or flow has a dispatch in flight only while it waits for it,
\* and then exactly one: the activation right above it.  A completion is
\* delivered only once the callee is gone, and only to the activation that
\* waits.  A batch or flow makes a dispatch only when it is the running
\* activation and every dispatch it made before has returned or failed, and it
\* moves to its next entry under the same condition.
C20_OneAtATime ==
  /\ [](\A k \in 1..Len(stack) :
          Composite(stack[k]) =>
            /\ k < Len(stack) =>
                 /\ stack[k].pc \in AwaitPcs
                 /\ stack[k + 1].depth = stack[k].depth + 1
            /\ ( k = Len(stack) /\ stack[k].pc \in AwaitPcs ) => ret.kind # "none")
  /\ [](ret.kind # "none" =>
          \/ stack = << >>
          \/ Composite(Top) /\ Top.pc \in AwaitPcs \cup { "cond" })
  /\ [][\A k \in 1..Len(stack) :
          /\ k < Len(stack) => ( Len(stack') >= k /\ stack'[k] = stack[k] )
          /\ ( /\ Composite(stack[k])
               /\ Len(stack') >= k
               /\ \/ stack'[k].nd # stack[k].nd
                  \/ stack'[k].i # stack[k].i )
               => /\ k = Len(stack)
                  /\ stack[k].pc \in AwaitPcs => ret.kind # "none"
                  /\ stack'[k].i \in { stack[k].i, stack[k].i + 1 }
                  /\ stack'[k].nd \in { stack[k].nd, stack[k].nd + 1 }
                  /\ stack'[k].nd = stack[k].nd + 1 =>
                       /\ stack'[k].pc \in AwaitPcs
                       /\ stack'[k].i = stack[k].i
                       /\ Len(stack') <= k + 1
                       /\ Len(stack') = k => ret'.kind = "err"
       ]_vars

\* a batch waits for its second command, the first having returned
C20_Witness ==
  /\ Len(stack) = 2
  /\ stack[1].tool = "batch_commands"
  /\ stack[1].pc = "await"
  /\ stack[1].nd = 2
  /\ stack[1].i = 2
  /\ Len(stack[1].results) = 1
  /\ stack[2].pc = "start"
  /\ ret = NoRet

(* ------------------------------------------------------------------ *)
(* C21                                                                *)
(* ------------------------------------------------------------------ *)
\* the platform the running tool call is made against: the one its arguments
\* name, else the active one
TargetOfCall ==
  IF Top.args.platform # Undefined THEN Top.args.platform ELSE activePlatform

\* C21 as stated: a step of a tool call that runs against platform P leaves
\* the element cache entry and the last-screenshot entry of every other
\* platform as they were.
C21_CachesKeyedByTarget ==
  [][phase = "running" /\ Len(stack) > 0 =>
       \A q \in Targets \ { TargetOfCall } :
         /\ elementCache'[q] = elementCache[q]
         /\ lastScreenshot'[q] = lastScreenshot[q]]_vars

(* ------------------------------------------------------------------ *)
(* C22                                                                *)
(* ------------------------------------------------------------------ *)
\* what the claim has diff mode return for a change of p percent, as the kind
\* of image: none, the full frame, or the crop
ClaimedImage(p, region) ==
  IF p < 5 THEN "" ELSE IF p >= 80 \/ ~region THEN "full" ELSE "crop"

StableFrames ==
  { k \in 1..Len(stack) :
      stack[k].tool = "screenshot" /\ stack[k].args.waitForStable = "true" }

\* C23: waitForStableScreenshot takes at most 1 + 3 = 4 captures; it is still
\* looping only while no pair of consecutive captures differed by less than 2
\* percent; when it has returned, the last pair it compared differed by less
\* than 2 percent or 4 captures were taken, and the buffer returned is the
\* latest capture; and the loop always comes to an end.
C23_StableTerminates ==
  /\ [](\A k \in StableFrames :
          /\ stack[k].ns <= 4
          /\ stack[k].pc = "stable" =>
               /\ stack[k].ns >= 1
               /\ stack[k].ns = 1 \/ stack[k].changePercent >= 2
          /\ stack[k].pc = "shot" =>
               /\ stack[k].ns >= 2
               /\ stack[k].changePercent \in 0..1 \/ stack[k].ns = 4
               /\ stack[k].buf = stack[k].ns)
  /\ (Running("screenshot", "stable") ~> ~Running("screenshot", "stable"))

\* four captures were taken without two consecutive ones being alike, and the
\* fourth is the buffer returned
C23_Witness ==
  /\ Running("screenshot", "shot")
  /\ Top.args.waitForStable = "true"
  /\ Top.ns = 4
  /\ Top.buf = 4
  /\ Top.changePercent = 50

(* ------------------------------------------------------------------ *)
(* C24                                                                *)
(* ------------------------------------------------------------------ *)
\* the step repeats by a positive count and has no exit predicate
FixedCount(step) ==
  /\ step.repeat.times > 0
  /\ step.repeat.until_found = ""
  /\ step.repeat.until_not_found = ""

\* min(count, FLOW_MAX_REPEAT)
CappedCount(step) ==
  IF step.repeat.times <= FLOW_MAX_REPEAT THEN step.repeat.times ELSE FLOW_MAX_REPEAT

\* the flow activations that are inside a step with a fixed count
InFixedCount ==
  { k \in FlowFrames :
      /\ stack[k].pc \notin { "start", "step" }
      /\ FixedCount(stack[k].args.steps[stack[k].i]) }

\* the attempts of the step never number more than min(count, FLOW_MAX_REPEAT):
\* iter counts the attempts that are over, and one more may be in flight
AttemptsCapped ==
  \A k \in InFixedCount :
    LET cap == CappedCount(stack[k].args.steps[stack[k].i]) IN
    /\ stack[k].iter <= cap
    /\ stack[k].pc \in { "await", "swipe_await", "retry_await" } => stack[k].iter < cap

MalformedRepeat(steps) ==
  \E k \in 1..Len(steps) : steps[k].repeat.times < 0

\* C25 as stated: a run_flow activation whose flow holds a step with a
\* malformed repeat spec never gets past its entry: it makes no dispatch, and
\* its entry step ends the activation without a report and leaves device,
\* caches and clock alone.
C25_MalformedRepeatRejected ==
  /\ [](\A k \in FlowFrames :
          MalformedRepeat(stack[k].args.steps) =>
            /\ k = Len(stack)
            /\ stack[k].pc = "start"
            /\ stack[k].nd = 0)
  /\ [][Running("run_flow", "start") /\ MalformedRepeat(Top.args.steps) =>
          /\ stack' = Below
          /\ ret'.kind # "none"
          /\ ret'.lines = << >>
          /\ UNCHANGED <<deviceVars, now, lastDispatch>>]_vars

(* ------------------------------------------------------------------ *)
(* C26                                                                *)
(* ------------------------------------------------------------------ *)
\* the number of composite activations that enclose the k-th activation
Enclosing(k) == Cardinality({ j \in 1..(k - 1) : Composite(stack[j]) })

\* C26: every handleTool call made by a batch_commands or run_flow activation
\* running at depth d (batch entry, flow step, fallback swipe, retry after the
\* swipe) carries depth d + 1 and the handler it starts runs at d + 1; so the
\* depth of every activation is the number of composite activations enclosing it.
C26_DepthCountsEnclosing ==
  /\ [](\A k \in 1..Len(stack) : stack[k].depth = Enclosing(k))
  /\ [][Dispatched /\ Len(stack) > 0 =>
          /\ Composite(Top)
          /\ lastDispatch'.depth = Top.depth + 1
          /\ lastDispatch'.out = "invoked" =>
               /\ Len(stack') = Len(stack) + 1
               /\ stack'[Len(stack')].depth = Top.depth + 1]_vars

\* the second step of a flow inside two batches has been dispatched: its tap
\* runs at depth 3
C26_Witness ==
  /\ Len(stack) = 4
  /\ stack[1].tool = "batch_commands"
  /\ stack[2].tool = "batch_commands"
  /\ stack[3].tool = "run_flow"
  /\ stack[3].i = 2
  /\ Top.tool = "tap"
  /\ Top.depth = 3
  /\ lastDispatch = [name |-> "tap", depth |-> 3, out |-> "invoked"]

(* ------------------------------------------------------------------ *)
(* C27                                                                *)
(* ------------------------------------------------------------------ *)
\* C27: every tool name a run_flow activation passes to handleTool, for a step
\* or for the fallback swipe, is in FLOW_ALLOWED_ACTIONS and is neither
\* batch_commands nor run_flow; so the activation started by a flow is never a
\* composite one.
C27_FlowDispatchesAllowedOnly ==
  /\ [](\A k \in FlowFrames :
          k < Len(stack) => stack[k + 1].tool \notin { "batch_commands", "run_flow" })
  /\ [][Dispatched /\ Len(stack) > 0 /\ Top.tool = "run_flow" =>
          /\ lastDispatch'.name \in FLOW_ALLOWED_ACTIONS
          /\ lastDispatch'.name \notin { "batch_commands", "run_flow" }]_vars

\* a flow has dispatched its fallback swipe, whose handler is running above it
C27_Witness ==
  /\ Len(stack) = 2
  /\ stack[1].tool = "run_flow"
  /\ stack[1].pc = "swipe_await"
  /\ stack[1].sw = 1
  /\ Top.tool = "swipe"
  /\ lastDispatch = [name |-> "swipe", depth |-> 1, out |-> "invoked"]

(* ------------------------------------------------------------------ *)
(* C28                                                                *)
(* ------------------------------------------------------------------ *)
\* the flow on top of the stack is inside a step written with on_error "skip"
InSkipStep(pcs) ==
  /\ phase = "running"
  /\ Len(stack) > 0
  /\ Top.tool = "run_flow"
  /\ Top.pc \in pcs
  /\ Top.args.steps[Top.i].on_error = "skip"

\* C28: no error delivered to a step with on_error "skip" ends the flow; when
\* such a step ends in failure, exactly one failed entry carrying the step's
\* ordinal is appended to the results and the flow moves on to the next step,
\* which it enters unless the steps are used up or the budget is spent.
C28_SkipRecordsAndContinues ==
  /\ [][InSkipStep({ "await", "cond", "swipe_await", "retry_await" }) /\ ret.kind = "err" =>
          Len(stack') >= Len(stack)]_vars
  /\ [][InSkipStep({ "endstep" }) /\ Top.last # NoResult /\ ~Top.last.success =>
          /\ Len(stack') = Len(stack)
          /\ stack'[Len(stack)].results = Append(Top.results, Top.last)
          /\ Top.last.step = Top.i
          /\ stack'[Len(stack)].i = Top.i + 1
          /\ stack'[Len(stack)].pc = "step"]_vars
  /\ [][Running("run_flow", "step") /\ Top.i <= Len(Top.args.steps) /\ ~OverBudget(Top) =>
          /\ Len(stack') = Len(stack)
          /\ stack'[Len(stack)].pc = "iter"
          /\ stack'[Len(stack)].i = Top.i]_vars

\* the first step, with on_error "skip", failed and is recorded as failed; the
\* second step has been dispatched
C28_Witness ==
  /\ Len(stack) = 2
  /\ stack[1].tool = "run_flow"
  /\ stack[1].pc = "await"
  /\ stack[1].i = 2
  /\ stack[1].args.steps[1].on_error = "skip"
  /\ Len(stack[1].results) = 1
  /\ ~stack[1].results[1].success
  /\ stack[1].results[1].step = 1
  /\ lastDispatch.out = "invoked"

(* ------------------------------------------------------------------ *)
(* C29                                                                *)
(* ------------------------------------------------------------------ *)
\* the step ordinals of the entries increase strictly
StrictlyOrdered(entries) ==
  \A a, b \in 1..Len(entries) : a < b => entries[a].step < entries[b].step

\* `later` is `earlier` with at most one entry appended
Extends(later, earlier) ==
  /\ Len(later) \in { Len(earlier), Len(earlier) + 1 }
  /\ SubSeq(later, 1, Len(earlier)) = earlier

\* C29: the results of a flow are ordered by strictly increasing step ordinal,
\* so no step has two entries however often it was repeated or retried, and
\* every entry belongs to a step the flow has already left; a step of the
\* handler only ever appends one entry and never changes or removes an entry,
\* and the report returned is the results with at most the final entry added.
C29_ReportOrdered ==
  /\ [](\A k \in FlowFrames :
          /\ StrictlyOrdered(stack[k].results)
          /\ \A j \in 1..Len(stack[k].results) :
               /\ stack[k].results[j].step >= 1
               /\ stack[k].results[j].step < stack[k].i)
  /\ [][\A k \in FlowFrames :
          k <= Len(stack') => Extends(stack'[k].results, stack[k].results)]_vars
  /\ [][FlowReports =>
          /\ StrictlyOrdered(ret'.lines)
          /\ Extends(ret'.lines, Top.results)
          /\ \A j \in 1..Len(ret'.lines) : ret'.lines[j].step \in 1..Len(Top.args.steps)]_vars

\* a flow whose first step ran twice returned a report with one entry for each
\* of its two steps
C29_Witness ==
  /\ request.name = "run_flow"
  /\ Len(request.arguments.steps) = 2
  /\ request.arguments.steps[1].repeat.times = 2
  /\ stack = << >>
  /\ ret.kind = "ok"
  /\ Len(ret.lines) = 2
  /\ ret.lines[1].step = 1
  /\ ret.lines[2].step = 2
  /\ lastDispatch.name = "tap"

(* ------------------------------------------------------------------ *)
(* C30                                                                *)
(* ------------------------------------------------------------------ *)
\* the running tool call completes in this step with a result
CallCompletes ==
  /\ phase = "running"
  /\ Len(stack) = 1
  /\ stack' = << >>
  /\ ret'.kind = "ok"

\* C30 as stated: when a tool call that captured and parsed the hierarchy of
\* platform P completes (annotate_screenshot that lists elements,
\* wait_for_element that found its element, get_ui or find_element on
\* Android), the element cache of P holds the elements of that capture, which
\* are the elements on the screen.
C30_CaptureSupersedesCache ==
  [][CallCompletes =>
       /\ Top.tool = "annotate_screenshot" /\ ret'.image = "annotated" =>
            elementCache'[TargetOfCall] = ui
       /\ Top.tool = "wait_for_element" /\ Includes(ret'.text, "Element found after") =>
            elementCache'[TargetOfCall] = ui
       /\ Top.tool \in { "get_ui", "find_element" } /\ TargetOfCall = "android" =>
            elementCache'["android"] = ui]_vars

(* ------------------------------------------------------------------ *)
(* C32                                                                *)
(* ------------------------------------------------------------------ *)
\* the definition of name n that registerTools(defs) leaves in force: the last
\* one of that name in the array
LastOf(defs, n) ==
  defs[CHOOSE k \in 1..Len(defs) :
         /\ defs[k].name = n
         /\ \A j \in 1..Len(defs) : defs[j].name = n => j <= k]

\* the registry after registerTools(defs) is the registry before it, with
\* every name of defs bound to its last definition in defs
LastWriteWins(defs) ==
  LET names == { defs[k].name : k \in 1..Len(defs) } IN
  /\ DOMAIN toolMap' = DOMAIN toolMap \cup names
  /\ \A n \in names : toolMap'[n] = LastOf(defs, n)
  /\ \A n \in DOMAIN toolMap \ names : toolMap'[n] = toolMap[n]

\* C32: the registry holds one definition per name, the one filed under that
\* name; every registration leaves each of its names bound to the last
\* definition given for it, whatever was registered before, and the other
\* names as they were; and a call of a registered name starts the handler of
\* the definition then in force.
C32_LastWriteWins ==
  /\ [](/\ \A n \in DOMAIN toolMap : toolMap[n].name = n
        /\ Cardinality({ toolMap[n] : n \in DOMAIN toolMap }) = Cardinality(getTools))
  /\ [][/\ toolMap' # toolMap => \E defs \in DefBatches : LastWriteWins(defs)
        /\ (phase = "idle" /\ phase' = "running" /\ request'.name \in DOMAIN toolMap)
             => /\ Len(stack') = 1
                /\ stack'[1].tool = toolMap[request'.name].handler]_vars

\* "click" was registered twice in one array, with the tap handler and then
\* with the swipe handler, and "tap" was registered again with the swipe
\* handler: the calls of either run the swipe handler
C32_Witness ==
  /\ "click" \in DOMAIN toolMap
  /\ toolMap["click"] = ToolDef("click", "swipe")
  /\ "tap" \in DOMAIN toolMap
  /\ toolMap["tap"] = ToolDef("tap", "swipe")
  /\ request.name = "tap"
  /\ Len(stack) = 1
  /\ stack[1].tool = "swipe"
  /\ stack[1].pc = "start"

(* ------------------------------------------------------------------ *)
(* C40                                                                *)
(* ------------------------------------------------------------------ *)
\* the tap call at hand names an element that its lookup finds, or gives both
\* coordinates when it names none: by text on iOS, by index among the cached
\* elements (the captured ones when none are cached) or by text among the
\* captured ones on Android
CoordinatesResolved ==
  LET args == Top.args
      looked == IF elementCache["android"] = {} THEN ui ELSE elementCache["android"]
  IN
  IF TargetOfCall = "ios" /\ args.text # "" THEN Matches(ui, args.text)
  ELSE IF TargetOfCall = "android" /\ args.index # Absent
    THEN args.index \in 0..(Cardinality(looked) - 1)
  ELSE IF TargetOfCall = "android" /\ args.text # "" THEN Matches(ui, args.text)
  ELSE args.x # Absent /\ args.y # Absent

\* the texts with which the tap handler answers when it has no coordinates
TapRefusals ==
  { "Element not found: " \o t : t \in { "Submit", "Cancel" } }
    \cup { "Element not found: " \o t \o "\n" \o why :
             t \in { "Submit", "Cancel" },
             why \in { "no such element" } \cup { e.message : e \in BackendErrors } }
    \cup { "Element with index " \o ToString(k) \o " not found. Run get_ui first." :
             k \in 0..1 }
    \cup { "Please provide x,y coordinates, text, resourceId, label, or index" }

\* C40: a step of the tap handler that has not resolved coordinates (the
\* element named by text or index is not found, or neither coordinates nor a
\* locator are given) ends the call and leaves the screen as it was, no input
\* having reached the device: it returns one of the handler's refusal texts,
\* or fails with the error of the capture that the lookup needed.
C40_TapsOnlyResolved ==
  [][Running("tap", "start") /\ ~CoordinatesResolved =>
       /\ stack' = Below
       /\ ui' = ui
       /\ \/ ret'.kind = "ok" /\ ret'.text \in TapRefusals
          \/ /\ ret'.kind = "err"
             /\ TargetOfCall = "android"
             /\ Top.args.index # Absent \/ Top.args.text # ""
             /\ \E e \in BackendErrors : ret'.text = e.message]_vars

\* on Android the tap of the text "Cancel", which no element carries, has
\* returned the not-found text
C40_Witness ==
  /\ phase = "running"
  /\ stack = << >>
  /\ request = TapText("Cancel")
  /\ activePlatform = "android"
  /\ ret = Ok("Element not found: Cancel")

(* ------------------------------------------------------------------ *)
(* C33                                                                *)
(* ------------------------------------------------------------------ *)
\* the confidence a find_and_tap call asks for
Gate == IF Top.args.minConfidence = Absent THEN 30 ELSE Top.args.minConfidence

\* the answer of find_and_tap tells of a tap made at confidence c
TellsOfTap(text, c) ==
  /\ Len(text) >= 6
  /\ SubSeq(text, 1, 6) = "Tapped"
  /\ Includes(text, "(" \o ToString(c) \o "% confidence)")

\* the answer of find_and_tap tells of a best match of confidence c, refused
TellsOfLowConfidence(text, c) ==
  Includes(text, "Best match has low confidence (" \o ToString(c) \o "%)")

\* C33: the step of find_and_tap ends the call.  When the screen has changed
\* or the answer tells of a tap, the platform is Android, an element matches
\* the description and the answer names a confidence at or above the gate
\* (minConfidence, 30 by default).  On another platform, with no element
\* matching, or with a best match below the gate, the screen is as it was and
\* the call returns a text (or fails with the error of the capture).
C33_TapsOnlyConfidentMatch ==
  [][Running("find_and_tap", "start") =>
       LET text == ret'.text
           tapped == \/ ui' # ui
                     \/ ret'.kind = "ok" /\ Len(text) >= 6 /\ SubSeq(text, 1, 6) = "Tapped"
           matching == /\ Top.args.description # ""
                       /\ Matches(ui, Top.args.description)
       IN
       /\ stack' = Below
       /\ tapped => /\ TargetOfCall = "android"
                    /\ matching
                    /\ ret'.kind = "ok"
                    /\ \E c \in Gate..100 : TellsOfTap(text, c)
       /\ TargetOfCall # "android" =>
            /\ ui' = ui
            /\ ret' = Ok("find_and_tap is only available for Android. "
                          \o "Use tap with coordinates for iOS/Desktop.")
       /\ (TargetOfCall = "android" /\ ~matching) =>
            /\ ui' = ui
            /\ \/ ret'.kind = "err"
               \/ /\ ret'.kind = "ok"
                  /\ Includes(text, "No element found matching \""
                                      \o Top.args.description \o "\"")
       /\ \A c \in 0..100 :
            (ret'.kind = "ok" /\ TellsOfLowConfidence(text, c)) =>
              /\ c < Gate
              /\ ui' = ui]_vars

\* with no minConfidence given, a match of confidence 30 has been tapped
C33_Witness ==
  /\ phase = "running"
  /\ stack = << >>
  /\ request = FindAndTapCmd("sub", Absent, Undefined)
  /\ activePlatform = "android"
  /\ ret.kind = "ok"
  /\ TellsOfTap(ret.text, 30)

(* ------------------------------------------------------------------ *)
(* C34                                                                *)
(* ------------------------------------------------------------------ *)
\* the time the running wait_for_element call has waited, its timeout and the
\* text it waits for
Waited == Top.iter * (IF Top.args.interval = Absent THEN 500 ELSE Top.args.interval)
WaitLimit == IF Top.args.timeout = Absent THEN 5000 ELSE Top.args.timeout
Awaited == Top.args.text

\* the three ends of a wait_for_element call, as seen in the step that makes
\* them: found, in a poll made before the timeout on a screen that holds a
\* match; timeout, once the time waited has reached it; and the
\* device-unavailable error of a poll
EndsFound ==
  /\ ret'.kind = "ok"
  /\ Includes(ret'.text, "Element found after " \o ToString(Waited) \o "ms:")
  /\ Waited < WaitLimit
  /\ TargetOfCall \in { "android", "ios" }
  /\ Matches(ui, Awaited)

EndsTimeout ==
  /\ ret'.kind = "ok"
  /\ Includes(ret'.text, "Timeout after " \o ToString(WaitLimit) \o "ms: element not found")
  /\ ~(Waited < WaitLimit)

EndsUnavailable ==
  /\ ret'.kind = "err"
  /\ ret'.cls \in { "DeviceNotFoundError", "DeviceOfflineError", "AdbNotInstalledError" }
  /\ Waited < WaitLimit
  /\ TargetOfCall \in { "android", "ios" }

\* the handler goes to sleep after a poll and will poll again
PollsOn == stack' = [stack EXCEPT ![Len(stack)].iter = @ + 1]

\* C34 as stated: every step that ends a wait_for_element call ends it as
\* found, as timeout or with a device-unavailable error.
C34_EndsThreeWays ==
  [][(Running("wait_for_element", "start") /\ stack' = Below) =>
       EndsFound \/ EndsTimeout \/ EndsUnavailable]_vars

\* C34, amended: a wait_for_element call without a search criterion ends at
\* once with a usage text and polls nothing.  A call with one polls only
\* before the timeout, polls on only when the capture of the poll (if it made
\* one) held no match, ends in exactly one of the three ways (found, timeout,
\* device-unavailable error), never with another error, and does end.
C34_EndsThreeWaysGivenCriterion ==
  /\ [][Running("wait_for_element", "start") =>
         /\ (stack' = Below) # PollsOn
         /\ Awaited = "" =>
              /\ stack' = Below
              /\ Top.iter = 0
              /\ ret' = Ok("Provide at least one search criteria: text, resourceId, or className")
              /\ elementCache' = elementCache
         /\ (Awaited # "" /\ stack' = Below) =>
              /\ EndsFound \/ EndsTimeout \/ EndsUnavailable
              /\ ~(EndsFound /\ EndsTimeout)
              /\ ~(EndsFound /\ EndsUnavailable)
              /\ ~(EndsTimeout /\ EndsUnavailable)
         /\ (Awaited # "" /\ PollsOn) =>
              /\ Waited < WaitLimit
              /\ elementCache'["android"] # elementCache["android"] => ~Matches(ui, Awaited)]_vars
  /\ (Running("wait_for_element", "start") /\ Awaited # "") ~> (stack = << >>)

\* the second poll, 500 ms after the first, has found the element
C34_Witness ==
  /\ phase = "running"
  /\ stack = << >>
  /\ request.name = "wait_for_element"
  /\ request.arguments.text = "Submit"
  /\ ret.kind = "ok"
  /\ Includes(ret.text, "Element found after 500ms:")

(* ------------------------------------------------------------------ *)
(* C35                                                                *)
(* ------------------------------------------------------------------ *)
\* the running handler is run_flow, at one of these places
FlowAt(pcs) ==
  /\ phase = "running"
  /\ Len(stack) > 0
  /\ Top.tool = "run_flow"
  /\ Top.pc \in pcs

\* the step taken gives the current flow step a failure entry: as the step's
\* pending result, or as the last line of the report the flow returns
RecordsFailure ==
  \/ /\ Len(stack') = Len(stack)
     /\ stack'[Len(stack)].last # Top.last
     /\ stack'[Len(stack)].last # NoResult
     /\ ~stack'[Len(stack)].last.success
  \/ /\ stack' = Below
     /\ ret'.kind = "ok"
     /\ Len(ret'.lines) = Len(Top.results) + 1
     /\ ~ret'.lines[Len(ret'.lines)].success

\* the step taken settles how the current flow step is recorded
SettlesStep ==
  \/ Len(stack') = Len(stack) /\ stack'[Len(stack)].pc = "endstep"
  \/ stack' = Below /\ ret'.kind = "ok"

\* the step taken records the attempt just made as a success and goes on
\* with the flow, dispatching nothing
RecordsSuccess ==
  /\ Len(stack') = Len(stack)
  /\ stack'[Len(stack)].last.success
  /\ stack'[Len(stack)].last.step = Top.i
  /\ Includes(stack'[Len(stack)].last.message, Slice(ret.text, RETRY_SLICE))
  /\ stack'[Len(stack)].nd = Top.nd
  /\ stack'[Len(stack)].sw = Top.sw
  /\ stack'[Len(stack)].results = Top.results

EntriesOf(entries, n) == { k \in 1..Len(entries) : entries[k].step = n }

\* C36 as stated: no ordinal has two entries in the results of a flow, and
\* when the iteration loop of a step that was dispatched (iter > 0: an attempt
\* has been completed) is left, the step gets its entry: the results, or the
\* report returned, are the results so far plus one entry with its ordinal.
C36_AttemptedStepsReported ==
  /\ [](\A k \in FlowFrames :
          \A n \in 1..Len(stack[k].args.steps) :
            Cardinality(EntriesOf(stack[k].results, n)) <= 1)
  /\ [][(FlowAt({ "endstep" }) /\ Top.iter > 0) =>
         LET after == IF stack' = Below THEN ret'.lines ELSE stack'[Len(stack)].results IN
         /\ Len(after) = Len(Top.results) + 1
         /\ SubSeq(after, 1, Len(Top.results)) = Top.results
         /\ after[Len(after)].step = Top.i
         /\ EntriesOf(Top.results, Top.i) = {}]_vars

(* ------------------------------------------------------------------ *)
(* C37                                                                *)
(* ------------------------------------------------------------------ *)
\* the step the flow on top is at repeats until a predicate holds
UntilStep ==
  LET rep == Top.args.steps[Top.i].repeat IN
  rep.until_found # "" \/ rep.until_not_found # ""

\* C37: at the head of an iteration of a repeat-until step, whatever
\* repeat.times says: before the tenth (FLOW_MAX_REPEAT-th) attempt has been
\* completed, and with budget left, the step's action is dispatched again;
\* once ten attempts have been completed the pending result is the success of
\* the last one, the loop is left without a dispatch, and the next step of
\* the handler appends that success and goes on to the following flow step.
\* No such step ever completes more than ten attempts.
C37_CapRecordsLastSuccess ==
  /\ [](\A k \in FlowFrames :
          LET f == stack[k] IN
          (f.pc \notin { "start", "step" }
             /\ ( f.args.steps[f.i].repeat.until_found # ""
                  \/ f.args.steps[f.i].repeat.until_not_found # "" ))
            => f.iter <= 10)
  /\ [][(FlowAt({ "iter" }) /\ UntilStep) =>
         /\ (Top.iter < 10 /\ ~OverBudget(Top)) =>
              /\ lastDispatch'.name = Top.args.steps[Top.i].action
              /\ stack'[Len(stack)].nd = Top.nd + 1
              /\ stack'[Len(stack)].pc = "await"
         /\ Top.iter = 10 =>
              /\ Top.last.success
              /\ Top.last.step = Top.i
              /\ stack' = [stack EXCEPT ![Len(stack)].pc = "endstep"]]_vars
  /\ [][(FlowAt({ "endstep" }) /\ UntilStep /\ Top.iter = 10) =>
         stack' = [stack EXCEPT ![Len(stack)].results = Append(Top.results, Top.last),
                                ![Len(stack)].i = Top.i + 1,
                                ![Len(stack)].pc = "step"]]_vars

\* a step with repeat.times = 2 and an exit predicate that never held has made
\* ten attempts and has a success entry; the flow is at its second step
C37_Witness ==
  /\ FlowAt({ "step" })
  /\ Top.i = 2
  /\ Top.args.steps[1].repeat.times = 2
  /\ Top.args.steps[1].repeat.until_found = "never"
  /\ Top.nd = 10
  /\ Top.nc = 10
  /\ Len(Top.results) = 1
  /\ Top.results[1].success
  /\ Top.results[1].step = 1

(* ------------------------------------------------------------------ *)
(* C38                                                                *)
(* ------------------------------------------------------------------ *)
\* the names flows may use, as the source lists them
AllowedInFlows ==
  { "tap", "swipe", "input_text", "press_key", "wait", "wait_for_element",
    "screenshot", "analyze_screen", "assert_visible", "assert_not_exists",
    "find_and_tap", "find_element", "open_url" }

\* name is an alias that a call from outside a flow would resolve
ResolvableAlias(name) ==
  /\ name \notin DOMAIN toolMap
  /\ name \in DOMAIN aliasMap
  /\ aliasMap[name] \in DOMAIN toolMap

\* C38: a flow with a step whose action string is not in the allow-list is
\* rejected at entry, naming the first such action, also when that action is
\* an alias that resolves to an allowed tool; every dispatch a flow makes
\* names an allow-listed action, and the handler it starts is the one
\* registered under that very name, whatever alias carries the same name; so
\* no activation started by a flow is a batch_commands or run_flow one.
C38_AliasesStayOutOfFlows ==
  /\ [](\A k \in FlowFrames :
          k < Len(stack) => stack[k + 1].tool \notin { "batch_commands", "run_flow" })
  /\ [][Running("run_flow", "start") =>
         \A k \in 1..Len(Top.args.steps) :
           LET action == Top.args.steps[k].action IN
           ( /\ action \notin AllowedInFlows
             /\ \A j \in 1..(k - 1) : Top.args.steps[j].action \in AllowedInFlows )
             => /\ stack' = Below
                /\ ret'.kind = "ok"
                /\ Includes(ret'.text, "Action \"" \o action \o "\" is not allowed in flows.")
                /\ lastDispatch' = lastDispatch]_vars
  /\ [][(Dispatched /\ Len(stack) > 0 /\ Top.tool = "run_flow") =>
         LET name == lastDispatch'.name IN
         /\ name \in AllowedInFlows
         /\ name \in DOMAIN toolMap
         /\ Len(stack') = Len(stack) + 1
         /\ stack'[Len(stack')].tool = toolMap[name].handler
         /\ toolMap[name].name = name]_vars

\* with "click" registered as an alias of tap, and "tap" as an alias of
\* batch_commands, the flow whose second step is "click" has been rejected
\* without a dispatch
C38_Witness ==
  /\ phase = "running"
  /\ stack = << >>
  /\ request.name = "run_flow"
  /\ request.arguments.steps[2].action = "click"
  /\ ResolvableAlias("click")
  /\ aliasMap["click"] = "tap"
  /\ "tap" \in DOMAIN aliasMap
  /\ aliasMap["tap"] = "batch_commands"
  /\ ret.kind = "ok"
  /\ Includes(ret.text, "Action \"click\" is not allowed in flows.")
  /\ lastDispatch.name = "run_flow"

(* ------------------------------------------------------------------ *)
(* C31                                                                *)
(* ------------------------------------------------------------------ *)
\* C31: with two calls interleaved at their awaits, every activation of
\* either call carries as its depth the number of activations below it in
\* its own chain; a dispatch made by the running call is checked with the
\* length of that call's own chain, fails on the depth limit exactly when
\* that length exceeds MAX_RECURSION_DEPTH (3), however deep the suspended
\* call is nested, and leaves the suspended call as it is.
C31_DepthIsPerCall ==
  /\ [](/\ \A k \in 1..Len(stack) : stack[k].depth = k - 1
        /\ \A k \in 1..Len(parked.stack) : parked.stack[k].depth = k - 1)
  /\ [][(self' = self /\ Dispatched) =>
         /\ lastDispatch'.depth = Len(stack)
         /\ FailedOnDepth <=> Len(stack) > 3
         /\ parked' = parked]_vars

\* the suspended call has hit the depth limit and is four activations deep;
\* the running call has dispatched its tap at depth 1, and the handler runs
C31_Witness ==
  /\ self = 2
  /\ parked.phase = "running"
  /\ parked.recursionHit
  /\ Len(parked.stack) = 4
  /\ phase = "running"
  /\ ~recursionHit
  /\ Len(stack) = 2
  /\ Top.tool = "tap"
  /\ Top.pc = "start"
  /\ lastDispatch = [name |-> "tap", depth |-> 1, out |-> "invoked"]

(* ------------------------------------------------------------------ *)
(* C39                                                                *)
(* ------------------------------------------------------------------ *)
\* what a call has answered, or "" before it has
AnswerOf(r, resp) == IF r.kind = "ok" THEN r.text ELSE resp.text

\* the suspended call is a screenshot call that has stored its capture
OtherHasStored ==
  /\ parked.request.name = "screenshot"
  /\ \/ parked.stack = << >>
     \/ parked.stack[Len(parked.stack)].pc = "answer"

\* the step in which a diff-mode call reads the cache entry of the platform
\* replaces the entry with the call's capture and keeps the entry it has read
\* as the buffer to compare with
StoresAsItReads ==
  [][(self' = self /\ Running("screenshot", "shot") /\ Top.args.diff = "true") =>
       /\ Len(stack') = Len(stack)
       /\ stack'[Len(stack)].prev = lastScreenshot[TargetOfCall]
       /\ lastScreenshot'[TargetOfCall] = Top.buf
       /\ lastScreenshot[TargetOfCall] # Top.buf
       /\ \A q \in Targets \ { TargetOfCall } : lastScreenshot'[q] = lastScreenshot[q]]_vars

\* two interleaved diff-mode calls that have both read the cache have read
\* different buffers, and at most one of two calls answers "First screenshot"
NeverSamePrevious ==
  /\ [](( /\ Running("screenshot", "answer")
          /\ parked.phase = "running"
          /\ Len(parked.stack) = 1
          /\ parked.stack[1].tool = "screenshot"
          /\ parked.stack[1].pc = "answer" )
         => Top.prev # parked.stack[1].prev)
  /\ [](( /\ request.name = "screenshot"
          /\ parked.request.name = "screenshot"
          /\ AnswerOf(ret, response) = "First screenshot (no previous to diff against)" )
         => AnswerOf(parked.ret, parked.response)
              # "First screenshot (no previous to diff against)")

\* C39 as stated: a diff-mode call reads the previous buffer and stores its
\* capture in one step; when the call returns, whatever it answers, the cache
\* entry of the platform is the capture of that call; and two interleaved
\* diff-mode calls never compare against the same previous buffer.
C39_CacheHoldsOwnCapture ==
  /\ StoresAsItReads
  /\ [][(self' = self /\ Running("screenshot", "answer") /\ Top.args.diff = "true") =>
         /\ stack' = Below
         /\ lastScreenshot'[TargetOfCall] = Top.buf]_vars
  /\ NeverSamePrevious

\* C39, amended: a diff-mode call reads the previous buffer and stores its
\* capture in one step; when the call returns, whatever it answers, the cache
\* entry of the platform is the capture of that call unless the other call
\* has stored its own since, and is never the buffer the call compared with;
\* the call answers "First screenshot" exactly when it has read no entry; and
\* two interleaved diff-mode calls never compare against the same previous
\* buffer.
C39_DiffStoresAtomically ==
  /\ StoresAsItReads
  /\ [][(self' = self /\ Running("screenshot", "answer") /\ Top.args.diff = "true") =>
         /\ stack' = Below
         /\ lastScreenshot' = lastScreenshot
         /\ lastScreenshot[TargetOfCall] # Top.buf => OtherHasStored
         /\ lastScreenshot[TargetOfCall] \notin { NoBuffer, Top.prev }
         /\ (ret'.text = "First screenshot (no previous to diff against)")
              <=> (Top.prev = NoBuffer)]_vars
  /\ NeverSamePrevious

\* the first call has stored its capture and was suspended before answering;
\* the second has compared with that capture, stored its own and answered
\* "unchanged"; the first call now returns "First screenshot" while the cache
\* holds the capture of the second
C39_Witness ==
  /\ self = 1
  /\ parked.request.name = "screenshot"
  /\ Includes(AnswerOf(parked.ret, parked.response), "Screen unchanged")
  /\ request.name = "screenshot"
  /\ phase = "running"
  /\ stack = << >>
  /\ ret.kind = "ok"
  /\ ret.text = "First screenshot (no previous to diff against)"
  /\ ret.buf = 1
  /\ lastScreenshot[activePlatform] = STABLE_MAX_RETRIES + 3

====
